---- MODULE Spec2Model ----
(***************************************************************************)
(* Model of the spm process supervisor (gnuos/spm): the lifecycle of the   *)
(* child processes one daemon owns.  The state is the Process objects of   *)
(* one registered project, the project's intended-running flags, the PID   *)
(* files, the operating system's view of every spawned child (leader of a  *)
(* process group, possibly with a descendant in the group), the monitor    *)
(* goroutine of every child, the supervisor lock and the per-process lock, *)
(* and the position of every caller inside the operation it executes.      *)
(*                                                                         *)
(* Spec      the daemon: client sessions call Supervisor.Start / Stop /    *)
(*           Restart and Shutdown, which serialise on the supervisor lock. *)
(* SpecProc  the Process API: callers invoke Process.Start / Stop /        *)
(*           Restart directly, serialised by the per-process lock only.    *)
(* FairSpec  Spec with weak fairness on every goroutine of the daemon and  *)
(*           on the kernel's delivery of the kill of a cancelled command.  *)
(*                                                                         *)
(* Beside the lifecycle, the registry of the supervisor is modelled:       *)
(* SpecList   the global ProcList under any sequence of Add and Del.       *)
(* SpecDaemon Daemon's goroutine, the accept loop and the sessions, from   *)
(*            the termination signal to the exit.                          *)
(* SpecReg    UpdateApp and the handlers built on it (reload, run, load),  *)
(*            with Supervisor.Start and Stop setting the flags.            *)
(* SpecAct    start, stop, restart and status requests: doAction, BatchDo  *)
(*            and the operations by name.                                  *)
(* SpecSess   one client and one session over the control socket: the     *)
(*            length-prefixed frames of ClientRun, Recv and sendResponse.  *)
(* SpecDump   the registry with the store of doDump and doLoad.            *)
(* SpecLoad   LoadProcfileOption over Procfiles and option files.          *)
(* SpecBat    a "*" batch of one session (forEachProcess on the names of   *)
(*            ProcList) against UpdateApp calls of another and the exits   *)
(*            of children.                                                 *)
(* SpecTab    ProjectTable and ProcTable: the locks their operations take, *)
(*            under two sessions.                                          *)
(* SpecStart  the log files, pipes and readers of Process.Start.           *)
(***************************************************************************)
EXTENDS Integers, Sequences, FiniteSets, TLC

\* ------------------------------------------------------------------------
\* Bounds
NumProcs == 1
\* children spawned in one run (pids 1..MaxSpawn, never reused)
MaxSpawn == 2
\* concurrent callers (client sessions, or direct callers of the Process API)
NumThreads == 2
\* requests issued in one run
MaxReq == 3

Procs == 1..NumProcs
ChildIds == 1..MaxSpawn
Threads == 1..NumThreads

VARIABLES
    proc,       \* proc[p]: the mutable fields of Process p
    pidfile,    \* pidfile[p]: 0 when the PID file is absent, else the pid it holds
    running,    \* running[p]: the project's intended-running flag of p
    child,      \* child[c]: the operating system's view of spawned child c
    nspawn,     \* number of children spawned so far
    svmu,       \* holder of Supervisor.mu (0: free)
    pmu,        \* pmu[p]: holder of Process.mu across a blocking wait (0: free)
    th,         \* th[t]: the request caller t executes and its position
    nreq,       \* number of requests issued so far
    down,       \* TRUE once Supervisor.Shutdown has returned
    lastStop,   \* lastStop[p]: what the latest successful Stop left, <<>> when
                \* another request on p has begun since (history)
    procList,   \* the supervisor's global ProcList (index, place, table)
    assigned,   \* the indices the Adds of SpecList have handed out (history)
    reg,        \* the registry: project table, flags, Process instances
    dm,         \* the daemon's main goroutine, its files and its channels
    wire,       \* one connection: both byte streams, the client, the session
    store,      \* the snapshot store of Dump and Load, and their response
    pfo,        \* the latest call of LoadProcfileOption and what it returned
    bat,        \* a "*" batch in progress and the Process objects it still holds
    tab,        \* the locked tables: their keys, their locks, the sessions at work on them
    att         \* one Process.Start after the other: the files, pipes and readers of each

\* the state outside the lifecycle of the children
ext == <<procList, assigned, reg, dm,
                wire, store, pfo, bat, tab, att>>

vars == <<proc, pidfile, running, child, nspawn, svmu, pmu, th, nreq, down, lastStop,
          procList, assigned, reg, dm,
                wire, store, pfo, bat, tab, att>>

\* ------------------------------------------------------------------------
\* Process (the fields the lifecycle reads and writes)

\* NewProcess: Pid 0, zero timestamps, Standby; no command context, no os.Process
NewProcess ==
    [State |-> "Standby", Pid |-> 0, sysproc |-> 0, StartAt |-> FALSE,
     StopAt |-> FALSE, ctx |-> "nil", cmd |-> 0]

Unborn == [owner |-> 0, leader |-> "unborn", desc |-> "none", cancelled |-> FALSE]

Idle ==
    [op |-> "idle", p |-> 0, pc |-> "idle", ret |-> FALSE, todo |-> <<>>,
     base |-> 0, c0 |-> 0, sig |-> 0, second |-> FALSE, alone |-> FALSE, n0 |-> 0,
     kerr |-> "none", kill |-> FALSE]

\* kill(pid, 0): succeeds for a live process and for a zombie not yet reaped
Signal0(pid) ==
    /\ pid \in ChildIds
    /\ child[pid].leader \in {"alive", "zombie"}

IsRunning_NeverProbes(pr) == FALSE

\* Process.IsRunning, the value returned
IsRunning(pr) ==
    IF pr.sysproc = 0 THEN FALSE
    ELSE IF pr.Pid > 0 /\ ~Signal0(pr.Pid) THEN FALSE
    ELSE TRUE

IsRunningState_StandbyWhenGone(pr) ==
    IF pr.sysproc = 0 \/ (pr.Pid > 0 /\ ~Signal0(pr.Pid)) THEN "Standby"
    ELSE "Running"

\* Process.IsRunning, the State it writes as a side effect
IsRunningState(pr) ==
    IF pr.sysproc = 0 THEN "Standby"
    ELSE IF pr.Pid > 0 /\ ~Signal0(pr.Pid) THEN "Stopped"
    ELSE "Running"

AfterIsRunning(pr) == [pr EXCEPT !.State = IsRunningState(pr)]

\* Process.updatePid: fails when the PID file cannot be read; a different
\* positive pid in the file replaces Pid and StartAt (the file's mtime)
updatePidOk(file) == file # 0

updatePid(pr, file) ==
    IF file > 0 /\ file # pr.Pid
    THEN [pr EXCEPT !.Pid = file, !.StartAt = TRUE]
    ELSE pr

onStop_KeepsPidFile(file) == file

\* Process.onStop: StartAt is zeroed and the PID file removed
onStop(pr) == [pr EXCEPT !.StartAt = FALSE]

onStopFile(file) == 0

\* Process.launchProcess: the pid recorded for the child just spawned
launchPid(c) == c

\* Process.launchProcess after cmd.Start succeeded (buildCommand installed
\* the new context before)
launchProcess(pr, c) ==
    [pr EXCEPT !.Pid = launchPid(c), !.sysproc = c, !.StartAt = TRUE,
               !.StopAt = FALSE, !.State = "Running", !.ctx = "live", !.cmd = c]

\* Process.launchProcess after cmd.Start failed
launchFailed(pr) == [pr EXCEPT !.State = "Failed", !.ctx = "live", !.cmd = 0]

\* Process.monitorProcess after cmd.Wait returned
monitorProcess(pr) == [onStop(pr) EXCEPT !.StopAt = TRUE, !.State = "Stopped"]

\* ------------------------------------------------------------------------
\* The operating system

\* some process of the group of child c exists (a zombie leader counts)
GroupExists(c) ==
    /\ c \in ChildIds
    /\ \/ child[c].leader \in {"alive", "zombie"}
       \/ child[c].desc # "none"

\* the configured stop signal delivered to every member of a group: a member
\* that ignores the signal survives
StopSignal(ch) ==
    [ch EXCEPT !.leader = IF @ = "alive" THEN "zombie" ELSE @,
               !.desc = IF @ = "alive" THEN "none" ELSE @]

\* SIGKILL delivered to every member of a group
SigKill(ch) ==
    [ch EXCEPT !.leader = IF @ = "alive" THEN "zombie" ELSE @,
               !.desc = "none"]

watchLog_EofOnly(c) ==
    /\ child[c].leader # "alive"
    /\ child[c].desc = "none"

\* Process.watchLog of child c has returned: its scanner stops at end of file
\* (no process holds the write end any more) or when cmd.Wait closed the pipe
watchLog(c) ==
    \/ child[c].leader \in {"reaped", "done"}
    \/ /\ child[c].leader = "zombie"
       /\ child[c].desc = "none"

\* p.wg.Wait() returns: every reader task started for p has returned
wgDone(p) ==
    \A c \in ChildIds : child[c].owner = p => watchLog(c)

\* ------------------------------------------------------------------------
\* Initial state: the project is registered, no process was ever launched

\* ------------------------------------------------------------------------
\* ProcList: the global, ordered list of full names (index, place, table)

\* application names and process names of the Procfiles used
Apps == {"a", "b"}
ProcNames == {"web", "job"}
\* a full name "app::name"
FullName(app, name) == <<app, name>>
FullNames == {FullName(app, name) : app \in Apps, name \in ProcNames}

\* successful ProcList.Add calls in one run
MaxAdds == 4

\* a Go map: a function whose domain is the set of keys present
EmptyMap == [k \in {} |-> 0]
MapPut(m, k, v) == [x \in (DOMAIN m) \cup {k} |-> IF x = k THEN v ELSE m[x]]
MapDel(m, k) == [x \in (DOMAIN m) \ {k} |-> m[x]]

NewProcList == [index |-> <<>>, place |-> EmptyMap, table |-> EmptyMap]

\* Index: the index of a name, -1 when the name is not in the list
ProcListIndex(pl, name) ==
    IF name \in DOMAIN pl.place THEN pl.place[name] ELSE -1

\* Get: the name at an index and whether there is one
ProcListGet(pl, i) ==
    IF i \in DOMAIN pl.table THEN <<pl.table[i], TRUE>> ELSE <<"", FALSE>>

lastIndex_FromTable(pl) == Cardinality(DOMAIN pl.table) - 1

\* the last element of the index slice, -1 when the slice is empty
lastIndex(pl) ==
    IF Len(pl.index) > 0 THEN pl.index[Len(pl.index)] ELSE -1

\* Add: refused when the name is present, else the name gets the index
\* after the last one of the index slice
ProcListAddOk(pl, name) == name \notin DOMAIN pl.place

ProcListAdd(pl, name) ==
    IF ~ProcListAddOk(pl, name) THEN pl
    ELSE [index |-> Append(pl.index, lastIndex(pl) + 1),
          table |-> MapPut(pl.table, lastIndex(pl) + 1, name),
          place |-> MapPut(pl.place, name, lastIndex(pl) + 1)]

ProcListDel_KeepsTable(pl, name) ==
    IF name \notin DOMAIN pl.place THEN pl
    ELSE [pl EXCEPT !.place = MapDel(@, name)]

\* Del: removes the name from both maps; the index slice is left alone
ProcListDel(pl, name) ==
    IF name \notin DOMAIN pl.place THEN pl
    ELSE [pl EXCEPT !.table = MapDel(@, pl.place[name]),
                    !.place = MapDel(@, name)]

\* All: the names of the list
ProcListAll(pl) == DOMAIN pl.place

\* what the history of the list records of one more Add
NoHistory == [idx |-> {}, gap |-> {}]
Recorded(h, pl, name) ==
    IF ~ProcListAddOk(pl, name) THEN h
    ELSE [idx |-> h.idx \cup {ProcListIndex(ProcListAdd(pl, name), name)},
          gap |-> IF /\ Len(pl.index) > 0
                     /\ pl.index[Len(pl.index)] \notin DOMAIN pl.table
                  THEN h.gap \cup {ProcListIndex(ProcListAdd(pl, name), name)}
                  ELSE h.gap]

\* ------------------------------------------------------------------------
\* The registry and the daemon after construction

\* reg.projects  the keys of the project table
\* reg.flags     the intended-running flags, by full name (Project.running)
\* reg.table     the registered Process objects, by full name; inst tells
\*               one Process instance from another of the same name
\* reg.ninst     Process instances created so far
\* reg.ret       the latest registry request and what it returned (history)
NoOpt == [AppName |-> "", WorkDir |-> "", Processes |-> {}]
NoRet == [op |-> "none", force |-> FALSE, opt |-> NoOpt, proj |-> "",
          isNil |-> TRUE, changed |-> <<>>, code |-> 0]
\* reg.req       the start/stop/restart/status request a session is handling:
\*               its selector (sel), the options loaded for the bare names
\*               (opt; loaded tells whether there are any), the names grouped
\*               by application (groups), the BatchDo in progress (cur, todo,
\*               base) and what was done so far (acted, infos)
NoReq == [pc |-> "idle", action |-> "", sel |-> <<>>, opt |-> NoOpt,
          loaded |-> FALSE, groups |-> EmptyMap, cur |-> "", todo |-> <<>>,
          base |-> 0, acted |-> <<>>, infos |-> <<>>, code |-> 0]
NewRegistry ==
    [projects |-> {}, flags |-> EmptyMap, table |-> EmptyMap, ninst |-> 0,
     ret |-> NoRet, req |-> NoReq]

\* a ProcfileOption: application name, work directory, declared processes
WorkDirs == {"", "/w"}
Opts == [AppName : Apps, WorkDir : WorkDirs, Processes : SUBSET ProcNames]

\* the orders in which a range over a Go map may visit the process names
Orders ==
    {o \in [1..Cardinality(ProcNames) -> ProcNames] :
        \A i, j \in 1..Cardinality(ProcNames) : o[i] = o[j] => i = j}
\* the names of a set, in the order of a visit
Visit(order, S) == SelectSeq(order, LAMBDA n : n \in S)

\* CreateProject: a project whose flag map holds every declared name, FALSE
CreateProject(opt) ==
    [Name |-> opt.AppName, running |-> [n \in opt.Processes |-> FALSE]]

\* Project.IsExist on a project made by CreateProject
IsExist(proj, name) == name \in DOMAIN proj.running

\* Project.GetState of a registered project: the flag, FALSE when there is none
GetState(r, app, name) ==
    IF FullName(app, name) \in DOMAIN r.flags THEN r.flags[FullName(app, name)]
    ELSE FALSE

\* Project.SetState
SetState(r, app, name, state) ==
    [r EXCEPT !.flags = MapPut(@, FullName(app, name), state)]

\* Project.GetProcNames of a registered project: the names that have a flag
GetProcNames(r, app) == {n \in ProcNames : FullName(app, n) \in DOMAIN r.flags}

\* notFoundProc: the sentinel returned for a name that is not registered
notFoundProc == [inst |-> 0, State |-> "NotFound", Pid |-> -1, FullName |-> <<>>]

\* a Process as NewProcess leaves it
FreshProcess(full, i) == [inst |-> i, State |-> "Standby", Pid |-> 0, FullName |-> full]

\* Supervisor.GetProcByName: the registered Process of a full name, else nil
\* (nil is the record whose inst is -1)
NilProc == [inst |-> -1, State |-> "nil", Pid |-> 0, FullName |-> <<>>]
GetProcByName(r, full) ==
    IF full \in DOMAIN r.table THEN r.table[full] ELSE NilProc

\* Project.Register: creates the Process when the name has none, puts it
\* into the process table and sets the intended-running flag to FALSE
Register(r, app, name) ==
    [r EXCEPT !.table = IF FullName(app, name) \in DOMAIN @ THEN @
                        ELSE MapPut(@, FullName(app, name),
                                    FreshProcess(FullName(app, name), r.ninst + 1)),
              !.ninst = IF FullName(app, name) \in DOMAIN r.table THEN @ ELSE @ + 1,
              !.flags = MapPut(@, FullName(app, name), FALSE)]

\* Project.Unset: removes the flag only
Unset(r, app, name) == [r EXCEPT !.flags = MapDel(@, FullName(app, name))]

\* ProcTable.Del of the project's process table
ProcTableDel(r, app, name) == [r EXCEPT !.table = MapDel(@, FullName(app, name))]

MayRemove_Undeclared(r, opt, name) == ~IsExist(CreateProject(opt), name)

\* the condition under which UpdateApp(false, ...) removes a registered name:
\* not declared any more and not flagged running
MayRemove(r, opt, name) ==
    ~IsExist(CreateProject(opt), name) /\ ~GetState(r, opt.AppName, name)

\* first loop of UpdateApp(false, ...): the removals
RECURSIVE RemoveGone(_, _, _)
RemoveGone(names, opt, st) ==
    IF names = <<>> THEN st
    ELSE RemoveGone(Tail(names), opt,
            IF MayRemove(st.reg, opt, Head(names))
            THEN [reg |-> ProcTableDel(Unset(st.reg, opt.AppName, Head(names)),
                                       opt.AppName, Head(names)),
                  pl |-> ProcListDel(st.pl, FullName(opt.AppName, Head(names))),
                  changed |-> st.changed]
            ELSE st)

IsRegistered_Never(r, full) == FALSE

\* the test of the second loop: the full name has a Process other than the
\* NotFound sentinel
IsRegistered(r, full) ==
    GetProcByName(r, full).inst # -1 /\ GetProcByName(r, full).State # "NotFound"

\* second loop of UpdateApp(false, ...): the registrations
RECURSIVE RegisterNew(_, _, _)
RegisterNew(names, opt, st) ==
    IF names = <<>> THEN st
    ELSE RegisterNew(Tail(names), opt,
            IF IsRegistered(st.reg, FullName(opt.AppName, Head(names)))
            THEN st
            ELSE [reg |-> Register(st.reg, opt.AppName, Head(names)),
                  pl |-> ProcListAdd(st.pl, FullName(opt.AppName, Head(names))),
                  changed |-> Append(st.changed, FullName(opt.AppName, Head(names)))])

\* the loop of UpdateApp(true, ...) for an application that is not registered
RECURSIVE RegisterAll(_, _, _)
RegisterAll(names, opt, st) ==
    IF names = <<>> THEN st
    ELSE RegisterAll(Tail(names), opt,
            [reg |-> Register(st.reg, opt.AppName, Head(names)),
             pl |-> ProcListAdd(st.pl, FullName(opt.AppName, Head(names))),
             changed |-> st.changed])

ForceSkips_Never(opt) == FALSE

\* UpdateApp(true, ...) registers nothing for an option without processes
\* or without work directory
ForceSkips(opt) == opt.Processes = {} \/ opt.WorkDir = ""

\* UpdateApp(force, opt): the registry and the list afterwards, the project
\* returned ("" for nil) and the changed list (isNil for nil).  o1 and o2 are
\* the orders of the ranges over the flag map and over the declared processes.
UpdateApp(force, opt, o1, o2, r, pl) ==
    LET none == [reg |-> r, pl |-> pl, changed |-> <<>>]
        all == RegisterAll(Visit(o2, opt.Processes), opt,
                           [none EXCEPT !.reg.projects = @ \cup {opt.AppName}])
        upd == RegisterNew(Visit(o2, opt.Processes), opt,
                           RemoveGone(Visit(o1, GetProcNames(r, opt.AppName)), opt, none))
    IN  IF force
        THEN IF opt.AppName \notin r.projects
             THEN IF ForceSkips(opt)
                  THEN [reg |-> r, pl |-> pl, proj |-> "", isNil |-> TRUE,
                        changed |-> <<>>]
                  ELSE [reg |-> all.reg, pl |-> all.pl, proj |-> opt.AppName,
                        isNil |-> TRUE, changed |-> <<>>]
             ELSE [reg |-> r, pl |-> pl, proj |-> opt.AppName, isNil |-> TRUE,
                   changed |-> <<>>]
        ELSE IF opt.AppName \in r.projects
             THEN [reg |-> upd.reg, pl |-> upd.pl, proj |-> opt.AppName,
                   isNil |-> FALSE, changed |-> upd.changed]
             ELSE [reg |-> r, pl |-> pl, proj |-> "", isNil |-> TRUE,
                   changed |-> <<>>]

\* client connections the control server accepts in one run
NumConns == 2
Conns == 1..NumConns

\* the signals NewSupervisor registers on the stop channel
NotifiedSignals == {"INT", "TERM", "QUIT"}
\* the signals the switch of Daemon answers with Shutdown
ShutdownSignals == {"INT", "TERM"}

\* Daemon blocked on the stop channel, both files written, the accept loop
\* at its select, the finish channel empty and open, no session yet.
\*   pc      position of Daemon's goroutine
\*   stopAll TRUE once Daemon itself has run Shutdown (StopAll("*"))
\*   live    TRUE while some child started by a session is running
\*   cap     capacity of the finish channel; buf: tokens it holds
NewDaemon ==
    [pc |-> "wait", sig |-> "none", stopAll |-> FALSE, live |-> FALSE,
     pidFile |-> TRUE, sockFile |-> TRUE, listen |-> "select",
     cap |-> 0, buf |-> 0, closed |-> FALSE,
     sess |-> [c \in Conns |-> "none"]]

\* strconv.IntSize of the build: the number the code passes as a byte count
IntSizes == {32, 64}

\* no message dispatched, or decoded
NoMsg == [Action |-> "", Processes |-> <<>>]

\* a connection nobody has opened yet.
\*   isz     strconv.IntSize of the build
\*   cpc     position of the client; plan: the chunks it is still to write;
\*           real: TRUE when the client is ClientRun
\*   c2s     bytes written by the client and not yet read by the session
\*   s2c     bytes written by the session and not yet read by the client
\*   spc     position of Handle; msgLen, res, ctl, req: its locals (the
\*           announced length, the response code, the control code, the
\*           message handed to dispatch)
\*   preN, bodyN   bytes the two reads of Handle returned (-1: not read)
\*   rerr    the step of Handle that saw an error
\*   cpre, spre, sbody   bytes of the prefix ClientRun wrote, of the prefix and
\*           of the body sendResponse wrote (-1: not written)
\*   cask, sask    bytes ClientRun and Handle asked for as the prefix
\*   nresp   response frames sendResponse has begun; serr: a Send of it failed
\*   cres    the response code ClientRun decoded
NewWire ==
    [isz |-> 64, cpc |-> "idle", plan |-> <<>>, real |-> FALSE, cclosed |-> FALSE,
     c2s |-> <<>>, s2c |-> <<>>, spc |-> "none", msgLen |-> 0, res |-> 0,
     ctl |-> "none", req |-> NoMsg, preN |-> -1, bodyN |-> -1, rerr |-> "none",
     cpre |-> -1, spre |-> -1, sbody |-> -1, cask |-> -1, sask |-> -1,
     nresp |-> 0, serr |-> FALSE, clen |-> 0, cres |-> 0]

\* an empty snapshot store, no Dump or Load answered.
\*   db      the keys the store holds
\*   op, err, code   the request being answered, the error it met, its code
\*   snap    the projects and processes of the latest Dump (history); clean:
\*           that Dump met no error and found the store empty
\*   n       Dumps, Loads and restarts of the daemon so far
NewStore ==
    [db |-> {}, op |-> "none", err |-> "none", code |-> 0, n |-> 0,
     snap |-> [projects |-> {}, names |-> {}], clean |-> FALSE]

\* LoadProcfileOption not called yet
NewPfo == [called |-> FALSE]

\* Process.Start calls made on one Process in one run
MaxStarts == 3
\* the two streams of a child
Streams == {"STDOUT", "STDERR"}
\* before the first Process.Start.
\*   pc      position inside Process.Start ("out": not inside)
\*   n       calls of Process.Start so far
\*   log     the log file of each stream, as this call left it: "none" (not
\*           opened), "open" or "closed"
\*   pipe    the same for the parent's end of each pipe
\*   readers the streams whose watchLog goroutine is running
\*   started the streams whose watchLog goroutine was started by this call
\*   child   "none", "alive" or "exited"
\*   ret     what the call returned ("none" while it runs)
\*   cause   why it returned false
\*   lost    files and pipes of earlier calls that were left open
NewAtt ==
    [pc |-> "out", n |-> 0,
     log |-> [s \in Streams |-> "none"], pipe |-> [s \in Streams |-> "none"],
     readers |-> {}, started |-> {}, child |-> "none", ret |-> "none",
     cause |-> "", lost |-> 0]

\* the tables with a reader/writer lock, the sessions that use them and the
\* keys they hold
LockedTables == {"ProjectTable", "ProcTable"}
Sessions == {"s1", "s2"}
TabKeys == {"k1", "k2"}
\* both tables empty and unlocked, no session at work.
\*   keys    the keys of each table
\*   readers the sessions holding the read lock; writer: the one holding
\*           the write lock ("" for none)
\*   pc, t, op, k  what each session is doing, on which table and key
\*   seen    the keys a range in progress has yielded
\*   dirty   TRUE once the table was written during the range of the session
NewTab ==
    [keys |-> [T \in LockedTables |-> {}],
     readers |-> [T \in LockedTables |-> {}],
     writer |-> [T \in LockedTables |-> ""],
     pc |-> [s \in Sessions |-> "idle"],
     t |-> [s \in Sessions |-> ""],
     op |-> [s \in Sessions |-> ""],
     k |-> [s \in Sessions |-> ""],
     seen |-> [s \in Sessions |-> {}],
     dirty |-> [s \in Sessions |-> FALSE]]

\* no "*" batch in progress.
\*   pc     position of the session inside forEachProcess("*", ...)
\*   action the action of the batch; pass: the *All call in progress
\*   todo   the names procList.All() returned that are still to visit
\*   p      the Process the latest GetProcByName returned (its instance
\*          number; -1: nil; 0: none yet)
\*   heap   the Process objects that have left the process table and are
\*          still held by the batch or still have a live child
\*   last   the operation the batch has just completed (history)
NoLast == [pass |-> "", p |-> 0, listed |-> FALSE]
NewBat ==
    [pc |-> "idle", action |-> "", pass |-> "", todo |-> <<>>, p |-> 0,
     heap |-> EmptyMap, last |-> NoLast]

Init ==
    /\ proc = [p \in Procs |-> NewProcess]
    /\ pidfile = [p \in Procs |-> 0]
    /\ running = [p \in Procs |-> FALSE]
    /\ child = [c \in ChildIds |-> Unborn]
    /\ nspawn = 0
    /\ svmu = 0
    /\ pmu = [p \in Procs |-> 0]
    /\ th = [t \in Threads |-> Idle]
    /\ nreq = 0
    /\ down = FALSE
    /\ lastStop = [p \in Procs |-> <<>>]
    /\ procList = NewProcList
    /\ assigned = NoHistory
    /\ reg = NewRegistry
    /\ dm = NewDaemon
    /\ wire = NewWire
    /\ store = NewStore
    /\ pfo = NewPfo
    /\ bat = NewBat
    /\ tab = NewTab
    /\ att = NewAtt

\* the order in which the global process list enumerates the processes
RECURSIVE procListAll(_)
procListAll(n) == IF n = 0 THEN <<>> ELSE Append(procListAll(n - 1), n)

SvOps == {"svStart", "svStop", "svRestart", "shutdown"}

\* what a Stop leaves behind, as the claim of idempotence compares it
StopLeft(p) == <<proc[p].State, proc[p].Pid, running[p], pidfile[p]>>

Begin(t, op, p, pc, todo) ==
    /\ th[t].pc = "idle"
    /\ nreq < MaxReq
    /\ ~down
    /\ nreq' = nreq + 1
    /\ th' = [th EXCEPT ![t] =
                [Idle EXCEPT !.op = op, !.p = p, !.pc = pc, !.todo = todo,
                             !.base = nspawn, !.n0 = nreq + 1,
                             !.alone = \A u \in Threads \ {t} : th[u].pc = "idle",
                             !.c0 = IF p \in Procs THEN proc[p].sysproc ELSE 0,
                             !.second = IF op \in {"svStop", "pStop"}
                                        THEN lastStop[p] # <<>> ELSE FALSE]]
    /\ lastStop' = IF op \in {"svStop", "pStop"} THEN lastStop
                   ELSE IF op = "shutdown" THEN [q \in Procs |-> <<>>]
                   ELSE [lastStop EXCEPT ![p] = <<>>]
    /\ UNCHANGED <<proc, pidfile, running, child, nspawn, svmu, pmu, down, ext>>

\* ------------------------------------------------------------------------
\* Requests of the client sessions (dispatch -> doAction -> BatchDo)

ReqStart(t) == \E p \in Procs : Begin(t, "svStart", p, "sv_start", <<>>)

ReqStop(t) == \E p \in Procs : Begin(t, "svStop", p, "sv_stop", <<>>)

\* Supervisor.Restart: sv.Stop(p) then sv.Start(p), two critical sections
ReqRestart(t) == \E p \in Procs : Begin(t, "svRestart", p, "sv_stop", <<>>)

\* dispatch of ActionShutdown / ActionKill: Supervisor.Shutdown -> StopAll("*"),
\* which walks a snapshot of the global process list
ReqShutdown(t) == Begin(t, "shutdown", 0, "sa_next", procListAll(NumProcs))

\* Direct calls of the Process API
CallStart(t) == \E p \in Procs : Begin(t, "pStart", p, "ps_validate", <<>>)

CallStop(t) == \E p \in Procs : Begin(t, "pStop", p, "pst_isrun", <<>>)

CallRestart(t) == \E p \in Procs : Begin(t, "pRestart", p, "pr_updpid", <<>>)

\* ------------------------------------------------------------------------
\* Returning from Process.Start and Process.Stop into the caller

\* Supervisor.Stop is left: Supervisor.Restart goes on to Supervisor.Start,
\* StopAll to the next process
SvStopNext(rec, r) ==
    CASE rec.op = "svStop" -> [rec EXCEPT !.pc = "done", !.ret = r]
      [] rec.op = "svRestart" -> [rec EXCEPT !.pc = "sv_start"]
      [] OTHER -> [rec EXCEPT !.pc = "sa_next"]

\* Process.Stop returned r.  Supervisor.Stop clears the flag and returns p
\* when r is true, and goes on to its check of p.State otherwise;
\* Process.Restart goes on to clear Pid
AfterPStop(t, r) ==
    LET rec == th[t]
        sv == rec.op \in SvOps
    IN  /\ th' = [th EXCEPT ![t] =
                    CASE rec.op = "pStop" -> [rec EXCEPT !.pc = "done", !.ret = r]
                      [] rec.op = "pRestart" -> [rec EXCEPT !.pc = "pr_clearpid"]
                      [] OTHER -> IF r THEN SvStopNext(rec, TRUE)
                                  ELSE [rec EXCEPT !.pc = "sv_stop_chk"]]
        /\ running' = IF sv /\ r THEN [running EXCEPT ![rec.p] = FALSE] ELSE running
        /\ svmu' = IF sv /\ r THEN 0 ELSE svmu

\* Process.Start returned r.  Supervisor.Start stores r in the flag and returns
AfterPStart(t, r) ==
    LET rec == th[t]
        sv == rec.op \in SvOps
    IN  /\ th' = [th EXCEPT ![t] = [rec EXCEPT !.pc = "done", !.ret = r]]
        /\ running' = IF sv THEN [running EXCEPT ![rec.p] = r] ELSE running
        /\ svmu' = IF sv THEN 0 ELSE svmu

\* ------------------------------------------------------------------------
\* Supervisor.Start

\* sv.mu.Lock(); if p.IsRunning(): flag := true, return the "Started" snapshot
SvStart(t) ==
    LET p == th[t].p IN
    /\ th[t].pc = "sv_start"
    /\ svmu = 0
    /\ pmu[p] = 0
    /\ proc' = [proc EXCEPT ![p] = AfterIsRunning(@)]
    /\ IF IsRunning(proc[p])
       THEN /\ running' = [running EXCEPT ![p] = TRUE]
            /\ th' = [th EXCEPT ![t].pc = "done", ![t].ret = TRUE]
            /\ svmu' = 0
       ELSE /\ th' = [th EXCEPT ![t].pc = "ps_validate"]
            /\ svmu' = t
            /\ UNCHANGED running
    /\ UNCHANGED <<pidfile, child, nspawn, pmu, nreq, down, lastStop, ext>>

\* ------------------------------------------------------------------------
\* Process.Start

\* validateStart: State = Stopping is an error, and so is IsRunning()
ValidateStart(t) ==
    LET p == th[t].p IN
    /\ th[t].pc = "ps_validate"
    /\ IF proc[p].State = "Stopping"
       THEN /\ th' = [th EXCEPT ![t].pc = "ps_err_stopping"]
            /\ UNCHANGED proc
       ELSE /\ pmu[p] = 0
            /\ proc' = [proc EXCEPT ![p] = AfterIsRunning(@)]
            /\ th' = [th EXCEPT ![t].pc =
                        IF IsRunning(proc[p]) THEN "ps_err_running" ELSE "ps_launch"]
    /\ UNCHANGED <<pidfile, running, child, nspawn, svmu, pmu, nreq, down, lastStop, ext>>

\* Start, validateStart failed: "if p.IsRunning() return true", else false
StartRefused(t) ==
    LET p == th[t].p IN
    /\ th[t].pc \in {"ps_err_stopping", "ps_err_running"}
    /\ pmu[p] = 0
    /\ proc' = [proc EXCEPT ![p] = AfterIsRunning(@)]
    /\ AfterPStart(t, IsRunning(proc[p]))
    /\ UNCHANGED <<pidfile, child, nspawn, pmu, nreq, down, lastStop, ext>>

\* Start: prepareEnvironment or buildCommand fails, nothing was changed
StartEnvFails(t) ==
    /\ th[t].pc = "ps_launch"
    /\ AfterPStart(t, FALSE)
    /\ UNCHANGED <<proc, pidfile, child, nspawn, pmu, nreq, down, lastStop, ext>>

\* Start: setupStreams fails; buildCommand has installed a new context, no
\* child exists for it
StartStreamsFail(t) ==
    LET p == th[t].p IN
    /\ th[t].pc = "ps_launch"
    /\ proc' = [proc EXCEPT ![p] = [@ EXCEPT !.ctx = "live", !.cmd = 0]]
    /\ AfterPStart(t, FALSE)
    /\ UNCHANGED <<pidfile, child, nspawn, pmu, nreq, down, lastStop, ext>>

\* Start: cmd.Start fails in launchProcess
StartSpawnFails(t) ==
    LET p == th[t].p IN
    /\ th[t].pc = "ps_launch"
    /\ proc' = [proc EXCEPT ![p] = launchFailed(@)]
    /\ AfterPStart(t, FALSE)
    /\ UNCHANGED <<pidfile, child, nspawn, pmu, nreq, down, lastStop, ext>>

\* Start: the child is spawned in a new process group, launchProcess records
\* it and writes the PID file, the monitor goroutine is started
StartSpawns(t) ==
    LET p == th[t].p
        c == nspawn + 1
    IN
    /\ th[t].pc = "ps_launch"
    /\ nspawn < MaxSpawn
    /\ pmu[p] = 0
    /\ nspawn' = c
    /\ \E d \in {"none", "alive", "ignoring"} :
          child' = [child EXCEPT ![c] =
                      [owner |-> p, leader |-> "alive", desc |-> d,
                       cancelled |-> FALSE]]
    /\ proc' = [proc EXCEPT ![p] = launchProcess(@, c)]
    /\ pidfile' = [pidfile EXCEPT ![p] = proc'[p].Pid]
    /\ AfterPStart(t, TRUE)
    /\ UNCHANGED <<pmu, nreq, down, lastStop, ext>>

\* ------------------------------------------------------------------------
\* Supervisor.Stop and StopAll

\* sv.mu.Lock(); p.Stop() is called only when State = Running and the flag is set
SvStop(t) ==
    LET p == th[t].p IN
    /\ th[t].pc = "sv_stop"
    /\ svmu = 0
    /\ svmu' = t
    /\ th' = [th EXCEPT ![t].pc =
                IF proc[p].State = "Running" /\ running[p]
                THEN "pst_isrun" ELSE "sv_stop_chk"]
    /\ UNCHANGED <<proc, pidfile, running, child, nspawn, pmu, nreq, down, lastStop, ext>>

\* State = Stopped: the flag is cleared and p returned; otherwise a snapshot
\* of the current State is returned
SvStopCheck(t) ==
    LET p == th[t].p
        r == proc[p].State = "Stopped"
    IN
    /\ th[t].pc = "sv_stop_chk"
    /\ running' = IF r THEN [running EXCEPT ![p] = FALSE] ELSE running
    /\ th' = [th EXCEPT ![t] = SvStopNext(@, r)]
    /\ svmu' = 0
    /\ UNCHANGED <<proc, pidfile, child, nspawn, pmu, nreq, down, lastStop, ext>>

\* StopAll("*"): sv.Stop for every listed process whose State is not Stopped;
\* Shutdown returns when the list is exhausted
StopAllNext(t) ==
    /\ th[t].pc = "sa_next"
    /\ IF th[t].todo = <<>>
       THEN /\ th' = [th EXCEPT ![t].pc = "done", ![t].ret = TRUE]
            /\ down' = TRUE
       ELSE /\ th' = [th EXCEPT ![t].p = Head(th[t].todo),
                                ![t].todo = Tail(th[t].todo),
                                ![t].pc = IF proc[Head(th[t].todo)].State # "Stopped"
                                          THEN "sv_stop" ELSE "sa_next"]
            /\ UNCHANGED down
    /\ UNCHANGED <<proc, pidfile, running, child, nspawn, svmu, pmu, nreq, lastStop, ext>>

\* ------------------------------------------------------------------------
\* Process.Stop

\* "if p.IsRunning() && !p.updatePid()": the probe
StopProbe(t) ==
    LET p == th[t].p IN
    /\ th[t].pc = "pst_isrun"
    /\ pmu[p] = 0
    /\ proc' = [proc EXCEPT ![p] = AfterIsRunning(@)]
    /\ th' = [th EXCEPT ![t].pc =
                IF IsRunning(proc[p]) THEN "pst_updpid" ELSE "pst_lock"]
    /\ UNCHANGED <<pidfile, running, child, nspawn, svmu, pmu, nreq, down, lastStop, ext>>

\* "if p.IsRunning() && !p.updatePid()": the PID file is read again, and State
\* becomes Unknown when it cannot be read
StopUpdatePid(t) ==
    LET p == th[t].p IN
    /\ th[t].pc = "pst_updpid"
    /\ pmu[p] = 0
    /\ proc' = [proc EXCEPT ![p] =
                  IF updatePidOk(pidfile[p]) THEN updatePid(@, pidfile[p])
                  ELSE [@ EXCEPT !.State = "Unknown"]]
    /\ th' = [th EXCEPT ![t].pc = "pst_lock"]
    /\ UNCHANGED <<pidfile, running, child, nspawn, svmu, pmu, nreq, down, lastStop, ext>>

\* p.mu.Lock(); switch p.State.  Running: the command context is cancelled
\* and the lock kept across p.wg.Wait()
StopCancel(t) ==
    LET p == th[t].p
        c == proc[p].cmd
    IN
    /\ th[t].pc = "pst_lock"
    /\ pmu[p] = 0
    /\ proc[p].State = "Running"
    /\ pmu' = [pmu EXCEPT ![p] = t]
    /\ proc' = [proc EXCEPT ![p].ctx = IF @ = "nil" THEN @ ELSE "canceled"]
    /\ child' = IF proc[p].ctx # "nil" /\ c \in ChildIds
                THEN [child EXCEPT ![c].cancelled = TRUE] ELSE child
    /\ th' = [th EXCEPT ![t].pc = "pst_wait"]
    /\ UNCHANGED <<pidfile, running, nspawn, svmu, nreq, down, lastStop, ext>>

\* p.mu.Lock(); switch p.State.  Any other State: nothing is done, and the
\* result is State = Stopped
StopNothing(t) ==
    LET p == th[t].p IN
    /\ th[t].pc = "pst_lock"
    /\ pmu[p] = 0
    /\ proc[p].State # "Running"
    /\ AfterPStop(t, proc[p].State = "Stopped")
    /\ UNCHANGED <<proc, pidfile, child, nspawn, pmu, nreq, down, lastStop, ext>>

\* p.wg.Wait() returns (it is skipped when there is no context); State := Stopping
StopWaited(t) ==
    LET p == th[t].p IN
    /\ th[t].pc = "pst_wait"
    /\ proc[p].ctx = "nil" \/ wgDone(p)
    /\ proc' = [proc EXCEPT ![p].State = "Stopping"]
    /\ th' = [th EXCEPT ![t].pc = "pst_signal"]
    /\ UNCHANGED <<pidfile, running, child, nspawn, svmu, pmu, nreq, down, lastStop, ext>>

\* the error of syscall.Kill(-g, p.signal): ESRCH when the group has no
\* member left.  It is a syscall.Errno, which errors.Is does not match with
\* os.ErrProcessDone, so that Stop keeps it and goes on to SIGKILL
KillError(g) == IF GroupExists(g) THEN "none" ELSE "ESRCH"

\* The select returns at once, the context being cancelled already.  The stop
\* signal goes to the group -Pid; SIGKILL follows only when that kill failed
\* (no process in the group).  State := Stopped, onStop, unlock
StopSignals(t) ==
    LET p == th[t].p
        g == proc[p].Pid
    IN
    /\ th[t].pc = "pst_signal"
    /\ child' = IF g \in ChildIds
                THEN [child EXCEPT ![g] =
                        IF GroupExists(g) THEN StopSignal(@) ELSE SigKill(@)]
                ELSE child
    /\ proc' = [proc EXCEPT ![p] = [onStop(@) EXCEPT !.State = "Stopped"]]
    /\ pidfile' = [pidfile EXCEPT ![p] = onStopFile(@)]
    /\ pmu' = [pmu EXCEPT ![p] = 0]
    /\ LET rec == [th[t] EXCEPT !.sig = g, !.kerr = KillError(g),
                                !.kill = KillError(g) # "none"]
           sv == rec.op \in SvOps
       IN  /\ th' = [th EXCEPT ![t] =
                       CASE rec.op = "pStop" -> [rec EXCEPT !.pc = "done", !.ret = TRUE]
                         [] rec.op = "pRestart" -> [rec EXCEPT !.pc = "pr_clearpid"]
                         [] OTHER -> SvStopNext(rec, TRUE)]
           /\ running' = IF sv THEN [running EXCEPT ![p] = FALSE] ELSE running
           /\ svmu' = IF sv THEN 0 ELSE svmu
    /\ UNCHANGED <<nspawn, nreq, down, lastStop, ext>>

\* ------------------------------------------------------------------------
\* Process.Restart

\* "_ = p.updatePid()"
RestartUpdatePid(t) ==
    LET p == th[t].p IN
    /\ th[t].pc = "pr_updpid"
    /\ pmu[p] = 0
    /\ proc' = [proc EXCEPT ![p] =
                  IF updatePidOk(pidfile[p]) THEN updatePid(@, pidfile[p]) ELSE @]
    /\ th' = [th EXCEPT ![t].pc = "pr_isrun"]
    /\ UNCHANGED <<pidfile, running, child, nspawn, svmu, pmu, nreq, down, lastStop, ext>>

\* "if p.IsRunning() { p.Stop() } else { onStop() }"
RestartProbe(t) ==
    LET p == th[t].p IN
    /\ th[t].pc = "pr_isrun"
    /\ pmu[p] = 0
    /\ IF IsRunning(proc[p])
       THEN /\ proc' = [proc EXCEPT ![p] = AfterIsRunning(@)]
            /\ th' = [th EXCEPT ![t].pc = "pst_isrun"]
            /\ UNCHANGED pidfile
       ELSE /\ proc' = [proc EXCEPT ![p] = onStop(AfterIsRunning(@))]
            /\ pidfile' = [pidfile EXCEPT ![p] = onStopFile(@)]
            /\ th' = [th EXCEPT ![t].pc = "pr_clearpid"]
    /\ UNCHANGED <<running, child, nspawn, svmu, pmu, nreq, down, lastStop, ext>>

\* "p.Pid = 0", then p.Start()
RestartClearPid(t) ==
    LET p == th[t].p IN
    /\ th[t].pc = "pr_clearpid"
    /\ pmu[p] = 0
    /\ proc' = [proc EXCEPT ![p].Pid = 0]
    /\ th' = [th EXCEPT ![t].pc = "ps_validate"]
    /\ UNCHANGED <<pidfile, running, child, nspawn, svmu, pmu, nreq, down, lastStop, ext>>

\* ------------------------------------------------------------------------
\* The request is answered

Return(t) ==
    LET rec == th[t] IN
    /\ rec.pc = "done"
    /\ th' = [th EXCEPT ![t] = Idle]
    /\ lastStop' = IF rec.op \in {"svStop", "pStop"}
                   THEN [lastStop EXCEPT ![rec.p] =
                           IF rec.ret /\ \A u \in Threads \ {t} : th[u].pc = "idle"
                           THEN StopLeft(rec.p) ELSE <<>>]
                   ELSE lastStop
    /\ UNCHANGED <<proc, pidfile, running, child, nspawn, svmu, pmu, nreq, down, ext>>

\* ------------------------------------------------------------------------
\* The children and their monitor goroutines

\* the child exits on its own
ChildExits(c) ==
    /\ child[c].leader = "alive"
    /\ child' = [child EXCEPT ![c].leader = "zombie"]
    /\ UNCHANGED <<proc, pidfile, running, nspawn, svmu, pmu, th, nreq, down, lastStop, ext>>

\* the descendant in the child's group exits on its own
DescendantExits(c) ==
    /\ child[c].desc # "none"
    /\ child' = [child EXCEPT ![c].desc = "none"]
    /\ UNCHANGED <<proc, pidfile, running, nspawn, svmu, pmu, th, nreq, down, lastStop, ext>>

\* exec.CommandContext: the command whose context is cancelled is killed
\* (the child alone, not its group)
ContextKills(c) ==
    /\ child[c].cancelled
    /\ child[c].leader = "alive"
    /\ child' = [child EXCEPT ![c].leader = "zombie"]
    /\ UNCHANGED <<proc, pidfile, running, nspawn, svmu, pmu, th, nreq, down, lastStop, ext>>

\* monitorProcess: cmd.Wait() returns, the child is reaped and its pipes closed
MonitorWaits(c) ==
    /\ child[c].leader = "zombie"
    /\ child' = [child EXCEPT ![c].leader = "reaped"]
    /\ UNCHANGED <<proc, pidfile, running, nspawn, svmu, pmu, th, nreq, down, lastStop, ext>>

\* monitorProcess: p.mu.Lock(); onStop(); StopAt := now; State := Stopped
MonitorStops(c) ==
    LET p == child[c].owner IN
    /\ child[c].leader = "reaped"
    /\ pmu[p] = 0
    /\ child' = [child EXCEPT ![c].leader = "done"]
    /\ proc' = [proc EXCEPT ![p] = monitorProcess(@)]
    /\ pidfile' = [pidfile EXCEPT ![p] = onStopFile(@)]
    /\ UNCHANGED <<running, nspawn, svmu, pmu, th, nreq, down, lastStop, ext>>

\* ------------------------------------------------------------------------
\* Specifications

\* the steps of Process.Start and Process.Stop, whoever calls them
ProcStep(t) ==
    \/ ValidateStart(t) \/ StartEnvFails(t) \/ StartStreamsFail(t)
    \/ StartSpawnFails(t) \/ StartSpawns(t)
    \/ StopProbe(t) \/ StopUpdatePid(t) \/ StopCancel(t) \/ StopNothing(t)
    \/ StopWaited(t) \/ StopSignals(t)
    \/ Return(t)

\* the steps of the Supervisor's operations
SvStep(t) == SvStart(t) \/ SvStop(t) \/ SvStopCheck(t) \/ StopAllNext(t)

RestartStep(t) == RestartUpdatePid(t) \/ RestartProbe(t) \/ RestartClearPid(t)

Background ==
    \E c \in ChildIds :
        \/ ChildExits(c) \/ DescendantExits(c) \/ ContextKills(c)
        \/ MonitorWaits(c) \/ MonitorStops(c)

\* The daemon.  Supervisor.Start calls Process.Start only after IsRunning()
\* returned false under the supervisor lock, so validateStart cannot fail there
\* (NoRefusalInDaemon below) and StartRefused is no step of the daemon.
Next ==
    \/ \E t \in Threads : ReqStart(t) \/ ReqStop(t) \/ ReqRestart(t) \/ ReqShutdown(t)
    \/ \E t \in Threads : SvStep(t) \/ ProcStep(t)
    \/ Background

Spec == Init /\ [][Next]_vars

NextProc ==
    \/ \E t \in Threads : CallStart(t) \/ CallStop(t) \/ CallRestart(t)
    \/ \E t \in Threads : ProcStep(t) \/ StartRefused(t) \/ RestartStep(t)
    \/ Background

SpecProc == Init /\ [][NextProc]_vars

\* Every goroutine of the daemon that can run does run, and the kernel
\* delivers the kill of a cancelled command.  Nothing obliges a child or a
\* descendant to exit, nor a client to send a request.
FairSpec ==
    /\ Spec
    /\ \A t \in Threads : WF_vars(SvStep(t) \/ ProcStep(t))
    /\ \A c \in ChildIds : WF_vars(ContextKills(c))
    /\ \A c \in ChildIds : WF_vars(MonitorWaits(c))
    /\ \A c \in ChildIds : WF_vars(MonitorStops(c))

TypeOK ==
    /\ \A p \in Procs :
          /\ proc[p].State \in {"Standby", "Running", "Stopping", "Stopped", "Failed", "Unknown"}
          /\ proc[p].Pid \in 0..MaxSpawn
          /\ pidfile[p] \in 0..MaxSpawn
    /\ nspawn \in 0..MaxSpawn
    /\ svmu \in 0..NumThreads

\* in the daemon validateStart never fails
NoRefusalInDaemon ==
    \A t \in Threads : th[t].pc \notin {"ps_err_stopping", "ps_err_running"}

\* ------------------------------------------------------------------------
\* Claims

Leader(c) == IF c \in ChildIds THEN child[c].leader ELSE "none"

\* a child exit that its monitor task has not finished handling
ExitPending(p) ==
    \E c \in ChildIds : child[c].owner = p /\ child[c].leader \in {"zombie", "reaped"}

\* C1: in every reachable state, a process whose State is Running has Pid > 0,
\* the child with that pid is alive, and the PID file exists and holds that
\* pid.  The formula grants the claim the time a monitor task needs to handle
\* an exit: it speaks of the states in which no exit of a child of the process
\* is pending.
C1_RunningImpliesAlivePidFile ==
    \A p \in Procs :
        (proc[p].State = "Running" /\ ~ExitPending(p)) =>
            /\ proc[p].Pid > 0
            /\ Leader(proc[p].Pid) = "alive"
            /\ pidfile[p] = proc[p].Pid

\* C2: in every reachable state, a process whose State is Stopped has no PID
\* file, however State became Stopped (Process.Stop, the monitor, IsRunning).
C2_StoppedImpliesNoPidFile ==
    \A p \in Procs : proc[p].State = "Stopped" => pidfile[p] = 0

AliveChildren(p) == {c \in ChildIds : child[c].owner = p /\ child[c].leader = "alive"}

\* C3: a Start request on a process whose child is alive (c0, the child it
\* found when it was issued) is answered without spawning a child, with Pid
\* unchanged, the intended-running flag true and success reported, for
\* sequential and for concurrent requests; and at every moment at most one
\* child spawned for a process is alive.
C3_StartOnRunningSpawnsNothing ==
    [][/\ \A p \in Procs : Cardinality(AliveChildren(p))' <= 1
       /\ \A t \in Threads :
             (/\ th[t].op = "svStart"
              /\ th[t].pc # "done"
              /\ th'[t].pc = "done"
              /\ th[t].c0 # 0
              /\ Leader(th[t].c0)' = "alive")
             => /\ \A c \in ChildIds : c > th[t].base => child'[c].owner # th[t].p
                /\ proc'[th[t].p].Pid = th[t].c0
                /\ running'[th[t].p]
                /\ th'[t].ret]_vars

\* C3 witness: a Start on a running process is answered while a second
\* session has a Start on the same process in progress
C3_Witness ==
    \E t, u \in Threads :
        /\ t # u
        /\ th[t].pc = "done" /\ th[t].op = "svStart"
        /\ th[t].c0 # 0 /\ Leader(th[t].c0) = "alive"
        /\ th[u].op = "svStart" /\ th[u].p = th[t].p /\ th[u].c0 = th[t].c0

StopOps == {"svStop", "pStop"}

\* C4: Stop is idempotent.  A Stop issued on a process on which Stop has just
\* succeeded (no other request on it since, none but Stops under way) returns
\* success again, sends no signal, and none of its steps changes State, Pid,
\* the flag or the PID file.
C4_StopIdempotent ==
    [][\A t \in Threads :
          (/\ th[t].op \in StopOps
           /\ th[t].second
           /\ lastStop[th[t].p] # <<>>
           /\ th[t].pc # "done"
           /\ th'[t] # th[t])
          => /\ StopLeft(th[t].p)' = StopLeft(th[t].p)
             /\ th'[t].sig = 0
             /\ th'[t].pc = "done" => th'[t].ret]_vars

OwnExit(c, p) ==
    /\ child[c].owner = p
    /\ child[c].leader = "zombie"
    /\ ~child[c].cancelled

Cleaned(p) ==
    /\ proc[p].State = "Stopped"
    /\ proc[p].StopAt
    /\ pidfile[p] = 0

\* C5: whenever a running child exits on its own (its command was not
\* cancelled by a Stop), the process eventually has State = Stopped, StopAt
\* set and no PID file, under fair scheduling of the daemon's goroutines.
C5_OwnExitIsCleanedUp ==
    \A c \in ChildIds : \A p \in Procs : OwnExit(c, p) ~> Cleaned(p)

\* C5 witness: the monitor of a child that exited on its own has cleaned up
C5_Witness ==
    \E c \in ChildIds :
        /\ child[c].leader = "done"
        /\ ~child[c].cancelled
        /\ Cleaned(child[c].owner)

GroupDead(c) ==
    c \in ChildIds => (child[c].leader # "alive" /\ child[c].desc = "none")

\* C6: when a Stop that signalled the child's group reports Stopped, no process
\* of the group is alive, also when the group ignores the configured stop
\* signal (SIGKILL follows the grace period).
C6_StopKillsWholeGroup ==
    \A t \in Threads :
        (/\ th[t].pc = "done"
         /\ th[t].op \in StopOps
         /\ th[t].ret
         /\ th[t].sig # 0)
        => GroupDead(th[t].sig)

\* the caller is inside Process.Stop
InStop(t) == th[t].pc \in {"pst_isrun", "pst_updpid", "pst_lock", "pst_wait", "pst_signal"}

HoldsLock(t) == svmu = t \/ \E p \in Procs : pmu[p] = t

\* C7: every Process.Stop that Supervisor.Stop calls on a Running process
\* (it waits for the reader tasks holding the per-process lock and the
\* supervisor lock) eventually returns and both locks are released, whatever
\* the child and its descendants do.
C7_StopTerminates ==
    \A t \in Threads : InStop(t) ~> (~InStop(t) /\ ~HoldsLock(t))

\* C7 witness: a Stop has passed p.wg.Wait() while a descendant that ignores
\* the stop signal still holds the write ends of the pipes
C7_Witness ==
    \E t \in Threads :
        /\ th[t].pc = "pst_signal"
        /\ th[t].op = "svStop"
        /\ proc[th[t].p].Pid \in ChildIds
        /\ child[proc[th[t].p].Pid].desc = "ignoring"

\* C8: Process.Start invoked while State = Stopping returns false, spawns no
\* child and leaves State equal to Stopping.
C8_StartWhileStoppingRefused ==
    [][\A t \in Threads :
          (th[t].pc = "ps_err_stopping" /\ th'[t].pc = "done")
          => /\ ~th'[t].ret
             /\ \A c \in ChildIds : child'[c].owner = th[t].p => child[c].owner = th[t].p
             /\ proc'[th[t].p].State = "Stopping"]_vars

\* C9: a Process.Restart that returns true on a process that was spawned
\* before has spawned a new child: State = Running and Pid is the positive pid
\* of a child launched by this Restart.
C9_RestartSpawns ==
    \A t \in Threads :
        (/\ th[t].pc = "done"
         /\ th[t].op = "pRestart"
         /\ th[t].ret
         /\ th[t].c0 # 0)
        => /\ proc[th[t].p].State = "Running"
           /\ proc[th[t].p].Pid > th[t].base
           /\ child[proc[th[t].p].Pid].owner = th[t].p

\* C10: when Supervisor.Shutdown returns, no child spawned for any registered
\* process is alive, whatever requests and child exits preceded the Shutdown
\* (no other request was under way when it began, none began before it returned).
C10_ShutdownLeavesNoChild ==
    [][\A t \in Threads :
          (/\ th[t].op = "shutdown"
           /\ th[t].alone
           /\ nreq = th[t].n0
           /\ th[t].pc # "done"
           /\ th'[t].pc = "done")
          => \A c \in ChildIds : child'[c].leader # "alive"]_vars

\* ------------------------------------------------------------------------
\* The ProcList on its own: any sequence of Add and Del

\* ProcList.Add(name)
ListAdd(name) ==
    /\ Len(procList.index) < MaxAdds
    /\ procList' = ProcListAdd(procList, name)
    /\ assigned' = Recorded(assigned, procList, name)
    /\ UNCHANGED <<proc, pidfile, running, child, nspawn, svmu, pmu, th, nreq, down,
                   lastStop, reg, dm,
                wire, store, pfo, bat, tab, att>>

\* ProcList.Del(name)
ListDel(name) ==
    /\ procList' = ProcListDel(procList, name)
    /\ UNCHANGED <<proc, pidfile, running, child, nspawn, svmu, pmu, th, nreq, down,
                   lastStop, assigned, reg, dm,
                wire, store, pfo, bat, tab, att>>

NextList ==
    \/ \E name \in FullNames : ListAdd(name)
    \/ \E name \in FullNames : ListDel(name)

SpecList == Init /\ [][NextList]_vars

\* the indices the list has ever used
UsedIndices == 0..MaxAdds

\* C16: after any sequence of ProcList.Add and ProcList.Del the mapping between
\* indices and names is a bijection: Get(i) = (name, true) implies
\* Index(name) = i, and Index(name) = i >= 0 implies Get(i) = (name, true).
C16_IndexNameBijection ==
    /\ \A i \in UsedIndices \cup DOMAIN procList.table :
          ProcListGet(procList, i)[2]
              => ProcListIndex(procList, ProcListGet(procList, i)[1]) = i
    /\ \A name \in FullNames :
          ProcListIndex(procList, name) >= 0
              => ProcListGet(procList, ProcListIndex(procList, name)) = <<name, TRUE>>

\* a list that lost an entry in the middle and got one more afterwards
C16_Witness ==
    /\ Cardinality(ProcListAll(procList)) >= 2
    /\ \E i \in UsedIndices :
          /\ ~ProcListGet(procList, i)[2]
          /\ ProcListGet(procList, i + 1)[2]
          /\ i > 0 /\ ProcListGet(procList, i - 1)[2]

\* C17: a successful Add gives the name an index strictly greater than every
\* index handed out before, whatever was deleted in between (the most recent
\* entry included), and no step changes the index of an entry that stays.
C17_IndicesGrowAndStay ==
    [][\A name \in FullNames :
          /\ (ProcListIndex(procList, name) = -1 /\ ProcListIndex(procList', name) >= 0)
                => \A j \in assigned.idx : ProcListIndex(procList', name) > j
          /\ (ProcListIndex(procList, name) >= 0 /\ ProcListIndex(procList', name) >= 0)
                => ProcListIndex(procList', name) = ProcListIndex(procList, name)]_vars

\* a name was added right after the most recent entry had been deleted, and
\* an older entry is still there with the index it got
C17_Witness ==
    /\ assigned.gap # {}
    /\ \E name \in FullNames : \E g \in assigned.gap :
          /\ ProcListIndex(procList, name) >= 0
          /\ ProcListIndex(procList, name) < g - 1

\* ------------------------------------------------------------------------
\* The daemon: Daemon's goroutine, the accept loop and the sessions

\* the finish channel is declared outside the files at hand: both an
\* unbuffered and a buffered channel are considered
InitDaemon ==
    /\ proc = [p \in Procs |-> NewProcess]
    /\ pidfile = [p \in Procs |-> 0]
    /\ running = [p \in Procs |-> FALSE]
    /\ child = [c \in ChildIds |-> Unborn]
    /\ nspawn = 0
    /\ svmu = 0
    /\ pmu = [p \in Procs |-> 0]
    /\ th = [t \in Threads |-> Idle]
    /\ nreq = 0
    /\ down = FALSE
    /\ lastStop = [p \in Procs |-> <<>>]
    /\ procList = NewProcList
    /\ assigned = NoHistory
    /\ reg = NewRegistry
    /\ \E k \in {0, 1} : dm = [NewDaemon EXCEPT !.cap = k]
    /\ wire = NewWire
    /\ store = NewStore
    /\ pfo = NewPfo
    /\ bat = NewBat
    /\ tab = NewTab
    /\ att = NewAtt

DaemonFrame ==
    UNCHANGED <<proc, pidfile, running, child, nspawn, svmu, pmu, th, nreq, down,
                lastStop, procList, assigned, reg, wire, store, pfo, bat, tab, att>>

Exited == dm.pc \in {"exited", "crashed"}

\* sig := <-utils.StopChan and the switch on it
DaemonSignal(s) ==
    /\ dm.pc = "wait"
    /\ dm' = [dm EXCEPT !.sig = s,
                        !.pc = IF s \in ShutdownSignals THEN "send" ELSE "close"]
    /\ DaemonFrame

\* utils.FinishChan <- struct{}{} in Daemon: panics on the closed channel,
\* else waits for room in the buffer or for the accept loop's select
DaemonSend ==
    /\ dm.pc = "send"
    /\ \/ /\ dm.closed
          /\ dm' = [dm EXCEPT !.pc = "panic"]
       \/ /\ ~dm.closed /\ dm.buf < dm.cap
          /\ dm' = [dm EXCEPT !.buf = @ + 1, !.pc = "shutdown"]
       \/ /\ ~dm.closed /\ dm.cap = 0 /\ dm.listen = "select"
          /\ dm' = [dm EXCEPT !.listen = "wgwait", !.pc = "shutdown"]
    /\ DaemonFrame

\* sv.Shutdown() in Daemon: StopAll("*") and the log syncs
DaemonShutdown ==
    /\ dm.pc = "shutdown"
    /\ dm' = [dm EXCEPT !.stopAll = TRUE, !.live = FALSE, !.pc = "close"]
    /\ DaemonFrame

\* close(utils.StopChan), the return of Daemon (or its panic) and the
\* deferred removal of the PID file and of the socket file
DaemonReturn ==
    /\ dm.pc \in {"close", "panic"}
    /\ dm' = [dm EXCEPT !.pidFile = FALSE, !.sockFile = FALSE, !.pc = "exited"]
    /\ DaemonFrame

\* the select of Listen: a token ends the loop, else Accept is entered
ListenSelect ==
    /\ ~Exited /\ dm.listen = "select"
    /\ IF dm.buf > 0
       THEN dm' = [dm EXCEPT !.buf = @ - 1, !.listen = "wgwait"]
       ELSE /\ ~(dm.cap = 0 /\ (dm.pc = "send"
                                  \/ \E c \in Conns : dm.sess[c] = "sending"))
            /\ dm' = [dm EXCEPT !.listen = "accept"]
    /\ DaemonFrame

\* Accept returns a client connection: a session goroutine is started
Connect(c) ==
    /\ ~Exited /\ dm.listen = "accept" /\ dm.sess[c] = "none"
    /\ dm' = [dm EXCEPT !.sess[c] = "handling", !.listen = "select"]
    /\ DaemonFrame

\* a session handles its request: an action that starts a child, an action
\* that starts none, or shutdown, which runs Shutdown and returns
\* ResponseShutdown
SessionHandle(c) ==
    /\ ~Exited /\ dm.sess[c] = "handling"
    /\ \/ \E l \in BOOLEAN :
             dm' = [dm EXCEPT !.sess[c] = "done", !.live = @ \/ l]
       \/ dm' = [dm EXCEPT !.sess[c] = "sending", !.live = FALSE]
    /\ DaemonFrame

\* utils.FinishChan <- struct{}{} of a session that handled shutdown
SessionSend(c) ==
    /\ ~Exited /\ dm.sess[c] = "sending" /\ ~dm.closed
    /\ \/ /\ dm.buf < dm.cap
          /\ dm' = [dm EXCEPT !.buf = @ + 1, !.sess[c] = "done"]
       \/ /\ dm.cap = 0 /\ dm.listen = "select"
          /\ dm' = [dm EXCEPT !.listen = "wgwait", !.sess[c] = "done"]
    /\ DaemonFrame

\* s.wg.Wait() returns, Listen returns: the socket and the finish channel
\* are closed
ListenReturn ==
    /\ ~Exited /\ dm.listen = "wgwait"
    /\ \A c \in Conns : dm.sess[c] \in {"none", "done"}
    /\ dm' = [dm EXCEPT !.listen = "stopped", !.closed = TRUE]
    /\ DaemonFrame

NextDaemon ==
    \/ \E s \in NotifiedSignals : DaemonSignal(s)
    \/ DaemonSend
    \/ DaemonShutdown
    \/ DaemonReturn
    \/ ListenSelect
    \/ \E c \in Conns : Connect(c)
    \/ \E c \in Conns : SessionHandle(c)
    \/ \E c \in Conns : SessionSend(c)
    \/ ListenReturn

\* every goroutine of the daemon runs when it can; signals and client
\* connections come when they come
SpecDaemon ==
    /\ InitDaemon /\ [][NextDaemon]_vars
    /\ WF_vars(DaemonSend) /\ WF_vars(DaemonShutdown) /\ WF_vars(DaemonReturn)
    /\ WF_vars(ListenSelect) /\ WF_vars(ListenReturn)
    /\ \A c \in Conns : WF_vars(SessionHandle(c)) /\ WF_vars(SessionSend(c))

\* C11: after a registered termination signal (INT, TERM or QUIT) the daemon
\* runs StopAll("*") before it removes its PID file and its socket file: the
\* files are never gone while StopAll has not been run by the daemon.
C11_StopAllBeforeFilesRemoved ==
    (~dm.pidFile \/ ~dm.sockFile) => dm.stopAll

\* ------------------------------------------------------------------------
\* The registry: UpdateApp and the handlers that call it (reload, run, load),
\* with Supervisor.Start and Supervisor.Stop setting the flags

RegFrame ==
    UNCHANGED <<proc, pidfile, running, child, nspawn, svmu, pmu, th, nreq, down,
                lastStop, assigned, dm,
                wire, store, pfo, bat, tab, att>>

\* the response to the latest request has been sent
Answered == reg.ret.op = "none"

\* sendResponse: the response goes out, the session ends
RegReturn ==
    /\ ~Answered
    /\ reg' = [reg EXCEPT !.ret = NoRet]
    /\ UNCHANGED procList
    /\ RegFrame

\* no more than MaxAdds Process instances are created in one run
Room(r, opt) == r.ninst + Cardinality(opt.Processes) <= MaxAdds

\* Supervisor.UpdateApp(force, opt)
RegUpdateApp(force, opt, o1, o2) ==
    /\ Answered
    /\ Room(reg, opt)
    /\ LET u == UpdateApp(force, opt, o1, o2, reg, procList)
       IN  /\ reg' = [u.reg EXCEPT !.ret =
                         [op |-> "UpdateApp", force |-> force, opt |-> opt,
                          proj |-> u.proj, isNil |-> u.isNil, changed |-> u.changed, code |-> 0]]
           /\ procList' = u.pl
    /\ RegFrame

\* the loop of doReload: UpdateApp(false, ...) per option, given up with 500
\* at the first one that returns a nil changed list
RECURSIVE ReloadAll(_, _, _, _)
ReloadAll(opts, o1, o2, st) ==
    IF opts = <<>> THEN [st EXCEPT !.code = 200]
    ELSE LET u == UpdateApp(FALSE, Head(opts), o1, o2, st.reg, st.pl)
         IN  IF u.isNil
             THEN [reg |-> u.reg, pl |-> u.pl, changed |-> <<>>, code |-> 500]
             ELSE ReloadAll(Tail(opts), o1, o2,
                            [reg |-> u.reg, pl |-> u.pl,
                             changed |-> st.changed \o u.changed, code |-> 0])

\* the options doReload builds from msg.Projects: the application name alone
ProjectOpts(apps) == [i \in 1..Len(apps) |-> [NoOpt EXCEPT !.AppName = apps[i]]]

\* doReload: by project names, or with the options loaded from the Procfile
\* of the working directory (none when loading fails)
RegReload(opts, o1, o2) ==
    /\ Answered
    /\ \A i \in 1..Len(opts) : Room(reg, opts[i])
    /\ LET u == ReloadAll(opts, o1, o2,
                          [reg |-> reg, pl |-> procList, changed |-> <<>>, code |-> 0])
       IN  /\ reg' = [u.reg EXCEPT !.ret =
                         [op |-> "Reload", force |-> FALSE,
                          opt |-> IF Len(opts) = 1 THEN opts[1] ELSE NoOpt,
                          proj |-> "", isNil |-> u.code # 200, changed |-> u.changed,
                          code |-> u.code]]
           /\ procList' = u.pl
    /\ RegFrame

\* p.IsRunning() as the registry sees it
RegIsRunning(pr) == pr.State = "Running"

\* Supervisor.Start(name): nothing for a name that is not registered; a
\* running process gets its flag set; else Process.Start() runs and the flag
\* is its result (ok)
SvStartByName(r, full, ok) ==
    IF full \notin DOMAIN r.table THEN r
    ELSE IF RegIsRunning(r.table[full])
         THEN SetState(r, full[1], full[2], TRUE)
         ELSE SetState([r EXCEPT !.table[full].State = IF ok THEN "Running" ELSE "Failed",
                                 !.table[full].Pid = IF ok THEN r.table[full].inst ELSE 0],
                       full[1], full[2], ok)

\* what Supervisor.Start(name) returns
SvStartResult(r, full, ok) ==
    IF full \notin DOMAIN r.table THEN notFoundProc
    ELSE IF RegIsRunning(r.table[full])
         THEN [r.table[full] EXCEPT !.State = "Started"]
         ELSE SvStartByName(r, full, ok).table[full]

\* Supervisor.Stop(name): nothing for a name that is not registered; a
\* running, flagged process is stopped by Process.Stop() (ok: its result) and
\* its flag cleared; a stopped one gets its flag cleared
SvStopByName(r, full, ok) ==
    IF full \notin DOMAIN r.table THEN r
    ELSE IF r.table[full].State = "Running" /\ GetState(r, full[1], full[2]) /\ ok
         THEN SetState([r EXCEPT !.table[full].State = "Stopped",
                                 !.table[full].Pid = 0],
                       full[1], full[2], FALSE)
         ELSE IF r.table[full].State = "Stopped"
              THEN SetState(r, full[1], full[2], FALSE)
              ELSE r

\* what Supervisor.Stop(name) returns
SvStopResult(r, full, ok) ==
    IF full \notin DOMAIN r.table THEN notFoundProc
    ELSE SvStopByName(r, full, ok).table[full]

\* a request that starts one process
RegStart(full, ok) ==
    /\ Answered
    /\ reg' = [SvStartByName(reg, full, ok) EXCEPT !.ret = [NoRet EXCEPT !.op = "Start"]]
    /\ UNCHANGED procList
    /\ RegFrame

\* a request that stops one process
RegStop(full, ok) ==
    /\ Answered
    /\ reg' = [SvStopByName(reg, full, ok) EXCEPT !.ret = [NoRet EXCEPT !.op = "Stop"]]
    /\ UNCHANGED procList
    /\ RegFrame

\* doRun: the option declares the one process of the command line;
\* UpdateApp(true), UpdateApp(false), then BatchDo(Start) of that process
RegRun(app, name, o1, ok) ==
    LET opt == [AppName |-> app, WorkDir |-> "/w", Processes |-> {name}]
        u1 == UpdateApp(TRUE, opt, o1, o1, reg, procList)
        u2 == UpdateApp(FALSE, opt, o1, o1, u1.reg, u1.pl)
        u3 == UpdateApp(TRUE, opt, o1, o1, u2.reg, u2.pl)
    IN  /\ Answered
        /\ Room(reg, opt)
        /\ reg' = [SvStartByName(u3.reg, FullName(app, name), ok) EXCEPT !.ret =
                      [op |-> "Run", force |-> FALSE, opt |-> opt, proj |-> u3.proj,
                       isNil |-> u2.isNil, changed |-> u2.changed, code |-> 200]]
        /\ procList' = u3.pl
        /\ RegFrame

\* the loop of doLoad: UpdateApp(true) then UpdateApp(false) per stored project
RECURSIVE LoadAll(_, _, _)
LoadAll(opts, o1, st) ==
    IF opts = <<>> THEN st
    ELSE LET u1 == UpdateApp(TRUE, Head(opts), o1, o1, st.reg, st.pl)
             u2 == UpdateApp(FALSE, Head(opts), o1, o1, u1.reg, u1.pl)
         IN  LoadAll(Tail(opts), o1, [reg |-> u2.reg, pl |-> u2.pl])

\* doLoad: the dump holds the options of some projects
RegLoad(opts, o1) ==
    /\ Answered
    /\ reg.ninst + Cardinality(UNION {opts[i].Processes : i \in 1..Len(opts)})
          + (IF Len(opts) = 2 THEN Cardinality(opts[1].Processes \cap opts[2].Processes)
             ELSE 0) <= MaxAdds
    /\ LET u == LoadAll(opts, o1, [reg |-> reg, pl |-> procList])
       IN  /\ reg' = [u.reg EXCEPT !.ret = [NoRet EXCEPT !.op = "Load", !.code = 200]]
           /\ procList' = u.pl
    /\ RegFrame

\* what a dump may hold: one project, or two of different names
Dumps ==
    {<<o>> : o \in {x \in Opts : x.WorkDir = "/w"}}
    \cup {<<o1, o2>> : o1 \in {x \in Opts : x.WorkDir = "/w" /\ x.AppName = "a"},
                        o2 \in {x \in Opts : x.WorkDir = "/w" /\ x.AppName = "b"}}

\* what doReload may be asked: one or two project names, the options of a
\* Procfile, or a Procfile that does not load
ReloadInputs ==
    {ProjectOpts(<<x>>) : x \in Apps}
    \cup {ProjectOpts(<<x, y>>) : x \in Apps, y \in Apps}
    \cup {<<o>> : o \in {x \in Opts : x.WorkDir = "/w"}}
    \cup {<<>>}

NextReg ==
    \/ \E force \in BOOLEAN, opt \in Opts, o1 \in Orders :
          RegUpdateApp(force, opt, o1, o1)
    \/ \E opts \in ReloadInputs, o1 \in Orders : RegReload(opts, o1, o1)
    \/ \E app \in Apps, name \in ProcNames, o1 \in Orders, ok \in BOOLEAN :
          RegRun(app, name, o1, ok)
    \/ \E opts \in Dumps, o1 \in Orders : RegLoad(opts, o1)
    \/ \E full \in FullNames, ok \in BOOLEAN : RegStart(full, ok)
    \/ \E full \in FullNames, ok \in BOOLEAN : RegStop(full, ok)
    \/ RegReturn

SpecReg == Init /\ [][NextReg]_vars

\* the full names an option declares
Declared(opt) == {FullName(opt.AppName, n) : n \in opt.Processes}
\* the full names of an application that have a Process in the registry
RegisteredOf(r, app) == {f \in DOMAIN r.table : f[1] = app}
\* the full names of an application in the global list
ListedOf(pl, app) == {f \in ProcListAll(pl) : f[1] = app}
\* the full names whose intended-running flag is set
Flagged(r) == {f \in DOMAIN r.flags : r.flags[f]}

\* C12: whatever UpdateApp(false, ...), Reload, Run or Load is executed, a
\* process whose intended-running flag is true is not removed from the process
\* table nor from the global ProcList, and it keeps its Process instance.
C12_FlaggedProcessSurvives ==
    [][\A f \in Flagged(reg) :
          /\ f \in DOMAIN reg.table /\ f \in DOMAIN reg'.table
          /\ reg'.table[f].inst = reg.table[f].inst
          /\ f \in ProcListAll(procList) /\ f \in ProcListAll(procList')
          /\ ProcListIndex(procList', f) = ProcListIndex(procList, f)]_vars

\* an update, reload or run of an application has just left in place a
\* flagged process that its option does not declare
C12_Witness ==
    /\ reg.ret.op \in {"UpdateApp", "Reload", "Run"}
    /\ ~reg.ret.force /\ ~reg.ret.isNil
    /\ \E f \in Flagged(reg) :
          /\ f[1] = reg.ret.opt.AppName
          /\ f \notin Declared(reg.ret.opt)
          /\ f \in DOMAIN reg.table

\* the set of the elements of a sequence
Elems(seq) == {seq[i] : i \in 1..Len(seq)}

\* what UpdateApp(false, opt) must have done to a registered application
UpdatedAsDeclared(opt, changed) ==
    /\ RegisteredOf(reg', opt.AppName)
          = Declared(opt) \cup (RegisteredOf(reg, opt.AppName) \cap Flagged(reg))
    /\ ListedOf(procList', opt.AppName) = RegisteredOf(reg', opt.AppName)
    /\ Elems(changed) = Declared(opt) \ RegisteredOf(reg, opt.AppName)
    /\ Len(changed) = Cardinality(Elems(changed))
    /\ \A f \in RegisteredOf(reg, opt.AppName) \cap Declared(opt) :
          /\ reg'.table[f] = reg.table[f]
          /\ reg'.flags[f] = reg.flags[f]

\* C13: UpdateApp(false, opt) on a registered application leaves registered
\* exactly the declared names and the names that were registered and flagged
\* running; its changed list is exactly the declared names that were not
\* registered; a process registered and still declared keeps its instance,
\* its State and its flag; a Reload of the application reports that list.
C13_UpdateRegistersDeclared ==
    [][/\ (reg'.ret.op = "UpdateApp" /\ ~reg'.ret.force
             /\ reg'.ret.opt.AppName \in reg.projects)
          => (~reg'.ret.isNil /\ UpdatedAsDeclared(reg'.ret.opt, reg'.ret.changed))
       /\ (reg'.ret.op = "Reload" /\ reg'.ret.opt.AppName \in reg.projects)
          => (reg'.ret.code = 200
              /\ UpdatedAsDeclared(reg'.ret.opt, reg'.ret.changed))]_vars

\* an update has registered a new name, kept a started process that is still
\* declared and kept a flagged one that is not declared any more
C13_Witness ==
    /\ reg.ret.op = "UpdateApp" /\ ~reg.ret.force /\ ~reg.ret.isNil
    /\ reg.ret.changed # <<>>
    /\ \E f \in RegisteredOf(reg, reg.ret.opt.AppName) \cap Declared(reg.ret.opt) :
          f \notin Elems(reg.ret.changed) /\ reg.table[f].State # "Standby"
    /\ \E a \in Apps \ {reg.ret.opt.AppName} : Flagged(reg) \cap RegisteredOf(reg, a) # {}

\* C14: UpdateApp(true, opt) changes nothing when the application is
\* registered already, and nothing either when it is not registered and opt
\* declares no process or has an empty work directory; nil is returned then.
C14_ForceUpdateFrame ==
    [][(reg'.ret.op = "UpdateApp" /\ reg'.ret.force)
          => /\ reg'.ret.opt.AppName \in reg.projects
                => /\ [reg' EXCEPT !.ret = NoRet] = [reg EXCEPT !.ret = NoRet]
                   /\ procList' = procList
                   /\ reg'.ret.proj = reg'.ret.opt.AppName
             /\ (reg'.ret.opt.AppName \notin reg.projects
                   /\ (reg'.ret.opt.Processes = {} \/ reg'.ret.opt.WorkDir = ""))
                => /\ [reg' EXCEPT !.ret = NoRet] = [reg EXCEPT !.ret = NoRet]
                   /\ procList' = procList
                   /\ reg'.ret.proj = ""]_vars

\* UpdateApp(true, opt) has returned for a registered application whose
\* registered names are not the ones opt declares
C14_Witness ==
    /\ reg.ret.op = "UpdateApp" /\ reg.ret.force
    /\ reg.ret.opt.AppName \in reg.projects
    /\ reg.ret.proj = reg.ret.opt.AppName
    /\ RegisteredOf(reg, reg.ret.opt.AppName) # Declared(reg.ret.opt)
    /\ reg.ret.opt.WorkDir # "" /\ reg.ret.opt.Processes # {}

\* ------------------------------------------------------------------------
\* Start, stop, restart and status requests: doAction, BatchDo and the
\* operations by name

Actions == {"Start", "Stop", "Restart", "Status"}

\* an entry of a selector: <<name>> is a bare name, <<app, name>> is app::name
Qualified(e) == Len(e) = 2
Star == <<"*">>
Entries == {<<n>> : n \in ProcNames} \cup {Star} \cup FullNames
\* entries of one selector
MaxSel == 2
Selectors == UNION {[1..k -> Entries] : k \in 1..MaxSel}

\* first loop of doAction: a qualified name REPLACES the list of its
\* application by the list holding that name alone; a bare name is appended
\* to localProcs
RECURSIVE SplitNames(_, _)
SplitNames(origProcs, acc) ==
    IF origProcs = <<>> THEN acc
    ELSE SplitNames(Tail(origProcs),
            IF Qualified(Head(origProcs))
            THEN [acc EXCEPT !.procMap = MapPut(@, Head(origProcs)[1], <<Head(origProcs)>>)]
            ELSE [acc EXCEPT !.localProcs = Append(@, Head(origProcs))])

\* the bare names with the application name of the loaded options in front,
\* unless the first of them is "*"
Prefixed(localProcs, app) ==
    IF localProcs[1] = Star THEN localProcs
    ELSE [i \in 1..Len(localProcs) |-> FullName(app, localProcs[i][1])]

\* procMap as doAction hands it to its BatchDo loop
GroupNames(sel, opt) ==
    LET split == SplitNames(sel, [procMap |-> EmptyMap, localProcs |-> <<>>])
    IN  IF split.localProcs = <<>> THEN split.procMap
        ELSE MapPut(split.procMap, opt.AppName, Prefixed(split.localProcs, opt.AppName))

HasBare(sel) == \E i \in 1..Len(sel) : ~Qualified(sel[i])

ActFrame ==
    UNCHANGED <<proc, pidfile, running, child, nspawn, svmu, pmu, th, nreq, down,
                lastStop, assigned, dm,
                wire, store, pfo, bat, tab, att>>

\* the Procfile options of the client's working directory
LoadedOpts == {o \in Opts : o.AppName = "a" /\ o.WorkDir = "/w"}

\* doAction up to its BatchDo loop: the selector is split, the options of the
\* working directory are loaded when there is a bare name (500 when that
\* fails), the names are grouped by application
ActBegin(action, sel, opt, loadOk) ==
    /\ reg.req.pc = "idle"
    /\ IF HasBare(sel)
       THEN loadOk => opt \in LoadedOpts
       ELSE loadOk /\ opt = NoOpt
    /\ reg' = [reg EXCEPT !.req =
                  IF ~loadOk
                  THEN [NoReq EXCEPT !.pc = "done", !.action = action, !.sel = sel,
                                     !.code = 500]
                  ELSE [NoReq EXCEPT !.pc = "groups", !.action = action, !.sel = sel,
                                     !.opt = opt, !.loaded = HasBare(sel),
                                     !.groups = GroupNames(sel, opt)]]
    /\ UNCHANGED procList
    /\ ActFrame

\* the orders in which a range over a map of full names may yield them
FullOrders ==
    {o \in [1..Cardinality(FullNames) -> FullNames] :
        \A i, j \in 1..Cardinality(FullNames) : o[i] = o[j] => i = j}

\* the names doMany("*") visits: every registered process, in the order ord
\* of the range over the map
SeqOf(S, ord) == SelectSeq(ord, LAMBDA f : f \in S)

\* the head of BatchDo for one application of procMap: the option is the
\* loaded one when the project is not registered (nil when nothing was
\* loaded: UpdateApp then dereferences a nil option and the daemon panics),
\* UpdateApp(true, opt) registers the project if need be, nil ends the batch
ActBatch(app, o1, ord) ==
    /\ reg.req.pc = "groups" /\ app \in DOMAIN reg.req.groups
    /\ LET rq == reg.req
           opt == IF app \in reg.projects THEN [NoOpt EXCEPT !.AppName = app]
                  ELSE rq.opt
           u == UpdateApp(TRUE, opt, o1, o1, reg, procList)
           procs == rq.groups[app]
           star == \E i \in 1..Len(procs) : procs[i] = Star
       IN  IF app \notin reg.projects /\ ~rq.loaded
           THEN /\ reg' = [reg EXCEPT !.req.pc = "panic"]
                /\ UNCHANGED procList
           ELSE /\ procList' = u.pl
                /\ reg' = [u.reg EXCEPT !.req =
                      IF u.proj = ""
                      THEN [rq EXCEPT !.groups = MapDel(@, app)]
                      ELSE IF star /\ DOMAIN u.reg.table = {}
                           THEN [rq EXCEPT !.groups = MapDel(@, app)]
                           ELSE [rq EXCEPT !.pc = "ops", !.cur = app,
                                           !.base = Len(rq.infos),
                                           !.todo = IF star THEN SeqOf(DOMAIN u.reg.table, ord)
                                                    ELSE procs]]
    /\ ActFrame

SvStatus_Probes(r, full) ==
    IF full \in DOMAIN r.table /\ ~RegIsRunning(r.table[full])
    THEN [r EXCEPT !.table[full].State = "Stopped"] ELSE r

\* Supervisor.Status(name): the registry is left as it is
SvStatusByName(r, full) == r

\* what Supervisor.Status(name) returns
SvStatusResult(r, full) ==
    IF full \notin DOMAIN r.table THEN notFoundProc ELSE r.table[full]

\* the registry after doFn(name)
DoFn(action, r, full, ok1, ok2) ==
    CASE action = "Start" -> SvStartByName(r, full, ok1)
      [] action = "Stop" -> SvStopByName(r, full, ok1)
      [] action = "Restart" -> SvStartByName(SvStopByName(r, full, ok1), full, ok2)
      [] action = "Status" -> SvStatusByName(r, full)

\* what doFn(name) returns
DoFnResult(action, r, full, ok1, ok2) ==
    CASE action = "Start" -> SvStartResult(r, full, ok1)
      [] action = "Stop" -> SvStopResult(r, full, ok1)
      [] action = "Restart" -> SvStartResult(SvStopByName(r, full, ok1), full, ok2)
      [] action = "Status" -> SvStatusResult(SvStatusByName(r, full), full)

\* the ProcInfo built from a returned Process
ProcInfo(pr) == [Name |-> pr.FullName, Status |-> pr.State, Pid |-> pr.Pid]

NextTodo_StopsOnFailure(todo, pr) ==
    IF pr.State \in {"NotFound", "Failed"} THEN <<>> ELSE Tail(todo)

\* the loop of BatchDo goes on to the next name whatever doFn returned
NextTodo(todo, pr) == Tail(todo)

\* one turn of the loop of BatchDo: doFn(name) and its ProcInfo
ActOp(ok1, ok2) ==
    /\ reg.req.pc = "ops" /\ reg.req.todo # <<>>
    /\ LET rq == reg.req
           full == Head(rq.todo)
           res == DoFnResult(rq.action, reg, full, ok1, ok2)
           rest == NextTodo(rq.todo, res)
       IN  reg' = [DoFn(rq.action, reg, full, ok1, ok2) EXCEPT !.req =
                      [rq EXCEPT !.todo = rest,
                                 !.acted = Append(@, full),
                                 !.infos = Append(@, ProcInfo(res)),
                                 !.pc = IF rest = <<>> THEN "groups" ELSE "ops",
                                 !.groups = IF rest = <<>> THEN MapDel(@, rq.cur) ELSE @]]
    /\ UNCHANGED procList
    /\ ActFrame

\* the response of doAction once every application of procMap is done
ActRespond ==
    /\ reg.req.pc = "groups" /\ DOMAIN reg.req.groups = {}
    /\ reg' = [reg EXCEPT !.req.pc = "done", !.req.code = 200]
    /\ UNCHANGED procList
    /\ ActFrame

\* sendResponse: the response goes out, the session ends
ActReturn ==
    /\ reg.req.pc = "done"
    /\ reg' = [reg EXCEPT !.req = NoReq]
    /\ UNCHANGED procList
    /\ ActFrame

NextAct ==
    \/ \E action \in Actions, sel \in Selectors, opt \in LoadedOpts \cup {NoOpt},
          loadOk \in BOOLEAN : ActBegin(action, sel, opt, loadOk)
    \/ \E app \in Apps, o1 \in Orders, ord \in FullOrders : ActBatch(app, o1, ord)
    \/ \E ok1 \in BOOLEAN, ok2 \in BOOLEAN : ActOp(ok1, ok2)
    \/ ActRespond
    \/ ActReturn

SpecAct == Init /\ [][NextAct]_vars

\* the registry proper: project table, flags, process table
Tables(r) == <<r.projects, r.flags, r.table, r.ninst>>

Resolve(e, opt) == IF Qualified(e) THEN e ELSE FullName(opt.AppName, e[1])
Named(sel, opt) == {Resolve(sel[i], opt) : i \in 1..Len(sel)}

\* C18: a selector of n entries, bare or qualified in any mix (several
\* qualified names of one application included), that name n different
\* registered processes has the action applied to exactly these n processes;
\* "*" has it applied to every registered process.
C18_SelectorActsOnNamed ==
    [][(reg'.req.pc = "done" /\ reg.req.pc # "done" /\ reg'.req.code = 200)
          => LET rq == reg'.req
             IN  IF rq.sel = <<Star>>
                 THEN Elems(rq.acted) = DOMAIN reg'.table
                 ELSE (/\ \A i \in 1..Len(rq.sel) : rq.sel[i] # Star
                       /\ Cardinality(Named(rq.sel, rq.opt)) = Len(rq.sel)
                       /\ Named(rq.sel, rq.opt) \subseteq DOMAIN reg'.table)
                      => /\ Elems(rq.acted) = Named(rq.sel, rq.opt)
                         /\ Len(rq.acted) = Len(rq.sel)]_vars

C20_UnknownNameIsAnswered ==
    [][(/\ reg.req.pc \in {"groups", "ops"}
        /\ Len(reg.req.sel) = 1 /\ Qualified(reg.req.sel[1])
        /\ reg.req.sel[1] \notin DOMAIN reg.table)
          => /\ reg'.req.pc # "panic"
             /\ Tables(reg') = Tables(reg)
             /\ procList' = procList
             /\ reg'.req.pc = "done"
                => /\ reg'.req.code = 200
                   /\ Len(reg'.req.infos) = 1
                   /\ reg'.req.infos[1].Status = "NotFound"]_vars


\* ---------------------------------------------------------------------
\* Requests whose Procfile does not load

\* C21: a request that has to load a Procfile, here Reload by working
\* directory and Procfile, whose Procfile does not load (unreadable,
\* malformed, invalid process name) is answered with code 500 and leaves the
\* registry as it was
C21_LoadFailureAnswered500 ==
    [][(\E o \in Orders : RegReload(<<>>, o, o)) =>
          /\ reg'.ret.code = 500
          /\ reg'.projects = reg.projects
          /\ reg'.flags = reg.flags
          /\ reg'.table = reg.table
          /\ procList' = procList]_vars

\* ---------------------------------------------------------------------
\* One connection: the frames of the client and of the session

\* the actions a request of this part carries, and their ActionCtl values
WireActions == {"Stop", "Status"}
ActionCode(a) == IF a = "Stop" THEN 4 ELSE 5
\* msg.Processes as bytes: "w", "wb"
Texts == {<<119>>, <<119, 98>>}
Msgs == [Action : WireActions, Processes : Texts]

\* byte k (0: lowest) of n
RECURSIVE Digit(_, _)
Digit(n, k) == IF k = 0 THEN n % 256 ELSE Digit(n \div 256, k - 1)

\* size := make([]byte, k); binary.BigEndian.PutUint64(size, n)
PutUint64(k, n) == [i \in 1..k |-> IF i <= 8 THEN Digit(n, 8 - i) ELSE 0]

\* binary.BigEndian.Uint64(buf): the first eight bytes
RECURSIVE BigEndian(_, _, _)
BigEndian(buf, i, acc) ==
    IF i > 8 THEN acc ELSE BigEndian(buf, i + 1, acc * 256 + buf[i])
Uint64(buf) == BigEndian(buf, 1, 0)

\* encoder.Marshal(msg): a map head, the action, the head of a text of the
\* length of msg.Processes, the text (the text is the last item of the map)
TextHead(n) == 96 + n
\* the head of a map of n pairs
MapHead(n) == 160 + n
Marshal(m) == <<MapHead(2), ActionCode(m.Action), TextHead(Len(m.Processes))>> \o m.Processes

\* cbor.Unmarshal(buf, msg): an error for a truncated item and for bytes
\* left over
Decodes(buf) ==
    /\ Len(buf) >= 3
    /\ buf[1] = MapHead(2)
    /\ \E a \in WireActions : buf[2] = ActionCode(a)
    /\ buf[3] >= TextHead(0)
    /\ Len(buf) = 3 + (buf[3] - TextHead(0))
Unmarshal(buf) ==
    [Action |-> CHOOSE a \in WireActions : buf[2] = ActionCode(a),
     Processes |-> SubSeq(buf, 4, Len(buf))]

\* encoder.Marshal(res): a map head, then Code as an unsigned integer of one
\* byte (200) or of two (500)
MarshalRes(code) ==
    IF code < 256 THEN <<MapHead(1), 24, code>>
    ELSE <<MapHead(1), 25, code \div 256, code % 256>>
UnmarshalRes(buf) ==
    IF Len(buf) = 3 /\ buf[1] = MapHead(1) /\ buf[2] = 24 THEN buf[3]
    ELSE IF Len(buf) = 4 /\ buf[1] = MapHead(1) /\ buf[2] = 25 THEN buf[3] * 256 + buf[4]
    ELSE 0

Min(a, b) == IF a < b THEN a ELSE b

\* conn.Read returns: at once for an empty buffer, else when bytes are there
\* or the peer has closed
CanRead(l, s, eof) == l = 0 \/ s # <<>> \/ eof

\* rpcSocket.Recv(l): one Read into a buffer of l zero bytes; an error when
\* Read fails (the peer closed and nothing is left) or returns no byte
Recv(l, s) ==
    LET n == Min(l, Len(s))
    IN  [err |-> n = 0, n |-> n,
         buf |-> [i \in 1..l |-> IF i <= n THEN s[i] ELSE 0],
         rest |-> SubSeq(s, n + 1, Len(s))]

\* what a client may write for message m on a build of IntSize k: ClientRun
\* writes the prefix then the body; the others stop within the prefix, within
\* the body, write a body that is no map, write no body, or write the length
\* in eight bytes
Garbled(body) == [body EXCEPT ![1] = 0]
ClientRunPlan(k, m) == <<PutUint64(k, Len(Marshal(m))), Marshal(m)>>
FaultyPlans(k, m) ==
    LET body == Marshal(m)
        pre  == PutUint64(k, Len(body))
    IN  { <<SubSeq(pre, 1, 4)>>,
          <<pre, SubSeq(body, 1, Len(body) - 1)>>,
          <<pre, Garbled(body)>>,
          <<pre>>,
          <<PutUint64(8, Len(body)), body>> }

SessFrame ==
    UNCHANGED <<proc, pidfile, running, child, nspawn, svmu, pmu, th, nreq, down,
                lastStop, procList, assigned, reg, dm, store, pfo, bat, tab, att>>

\* net.Dial by a client, Accept and NewSession by the server
ClientConnect(plan, real) ==
    /\ wire.cpc = "idle"
    /\ wire' = [wire EXCEPT !.cpc = "send", !.plan = plan, !.real = real,
                            !.spc = "recvLen"]
    /\ SessFrame

\* c.sock.Send of the next chunk; an error, and the client gone, once the
\* session has closed the connection
ClientWrite ==
    /\ wire.cpc = "send" /\ ~wire.cclosed
    /\ IF wire.spc = "closed"
       THEN wire' = [wire EXCEPT !.cpc = "done", !.cclosed = TRUE]
       ELSE wire' = [wire EXCEPT
                        !.c2s = @ \o Head(wire.plan),
                        !.plan = Tail(@),
                        !.cpre = IF wire.real /\ @ = -1 THEN Len(Head(wire.plan)) ELSE @,
                        !.cpc = IF Len(wire.plan) = 1 THEN "recvLen" ELSE "send"]
    /\ SessFrame

\* the client closes its end (its defer, or its death)
ClientClose ==
    /\ wire.cpc \in {"send", "recvLen", "recvBody"} /\ ~wire.cclosed
    /\ wire' = [wire EXCEPT !.cpc = "done", !.cclosed = TRUE]
    /\ SessFrame

\* ClientRun: Recv(strconv.IntSize), the length out of what came
ClientRecvLen ==
    /\ wire.cpc = "recvLen" /\ ~wire.cclosed
    /\ CanRead(wire.isz, wire.s2c, wire.spc = "closed")
    /\ LET r == Recv(wire.isz, wire.s2c)
       IN  wire' = [wire EXCEPT !.s2c = r.rest, !.cask = wire.isz,
                                !.clen = IF r.err THEN 0 ELSE Uint64(r.buf),
                                !.cpc = "recvBody"]
    /\ SessFrame

\* ClientRun: Recv(length), the response decoded, the connection closed
ClientRecvBody ==
    /\ wire.cpc = "recvBody" /\ ~wire.cclosed
    /\ CanRead(wire.clen, wire.s2c, wire.spc = "closed")
    /\ LET r == Recv(wire.clen, wire.s2c)
       IN  wire' = [wire EXCEPT !.s2c = r.rest,
                                !.cres = IF r.err THEN 0 ELSE UnmarshalRes(r.buf),
                                !.cpc = "done", !.cclosed = TRUE]
    /\ SessFrame

\* Handle: Recv(strconv.IntSize); an error is answered with errorResponse
SessRecvLen ==
    /\ wire.spc = "recvLen"
    /\ CanRead(wire.isz, wire.c2s, wire.cclosed)
    /\ LET r == Recv(wire.isz, wire.c2s)
       IN  wire' = IF r.err
                   THEN [wire EXCEPT !.sask = wire.isz, !.rerr = "len", !.res = 500,
                                     !.ctl = "MsgErr", !.spc = "sendLen"]
                   ELSE [wire EXCEPT !.sask = wire.isz, !.c2s = r.rest, !.preN = r.n,
                                     !.msgLen = Uint64(r.buf), !.spc = "recvBody"]
    /\ SessFrame

\* Handle: Recv(msgLen), cbor.Unmarshal, dispatch(msg); an error of either
\* is answered with errorResponse
SessRecvBody ==
    /\ wire.spc = "recvBody"
    /\ CanRead(wire.msgLen, wire.c2s, wire.cclosed)
    /\ LET r == Recv(wire.msgLen, wire.c2s)
       IN  wire' = IF r.err
                   THEN [wire EXCEPT !.rerr = "body", !.res = 500,
                                     !.ctl = "MsgErr", !.spc = "sendLen"]
                   ELSE IF ~Decodes(r.buf)
                   THEN [wire EXCEPT !.c2s = r.rest, !.bodyN = r.n, !.rerr = "decode",
                                     !.res = 500, !.ctl = "MsgErr", !.spc = "sendLen"]
                   ELSE [wire EXCEPT !.c2s = r.rest, !.bodyN = r.n,
                                     !.req = Unmarshal(r.buf), !.res = 200,
                                     !.ctl = "Normal", !.spc = "sendLen"]
    /\ SessFrame

\* sendResponse: the prefix of the encoded response; an error of Send (the
\* client has closed) ends Handle with MsgErr and the connection closed
SessSendLen ==
    /\ wire.spc = "sendLen"
    /\ wire' = IF wire.cclosed
               THEN [wire EXCEPT !.ctl = "MsgErr", !.serr = TRUE, !.spc = "closed"]
               ELSE [wire EXCEPT
                        !.s2c = @ \o PutUint64(wire.isz, Len(MarshalRes(wire.res))),
                        !.spre = wire.isz, !.nresp = @ + 1, !.spc = "sendBody"]
    /\ SessFrame

\* sendResponse: the encoded response, then the deferred Close of Handle
SessSendBody ==
    /\ wire.spc = "sendBody"
    /\ wire' = IF wire.cclosed
               THEN [wire EXCEPT !.ctl = "MsgErr", !.serr = TRUE, !.spc = "closed"]
               ELSE [wire EXCEPT !.s2c = @ \o MarshalRes(wire.res),
                                 !.sbody = Len(MarshalRes(wire.res)),
                                 !.spc = "closed"]
    /\ SessFrame

InitSess ==
    /\ proc = [p \in Procs |-> NewProcess]
    /\ pidfile = [p \in Procs |-> 0]
    /\ running = [p \in Procs |-> FALSE]
    /\ child = [c \in ChildIds |-> Unborn]
    /\ nspawn = 0
    /\ svmu = 0
    /\ pmu = [p \in Procs |-> 0]
    /\ th = [t \in Threads |-> Idle]
    /\ nreq = 0
    /\ down = FALSE
    /\ lastStop = [p \in Procs |-> <<>>]
    /\ procList = NewProcList
    /\ assigned = NoHistory
    /\ reg = NewRegistry
    /\ dm = NewDaemon
    /\ \E k \in IntSizes : wire = [NewWire EXCEPT !.isz = k]
    /\ store = NewStore
    /\ pfo = NewPfo
    /\ bat = NewBat
    /\ tab = NewTab
    /\ att = NewAtt

NextSess ==
    \/ \E m \in Msgs : ClientConnect(ClientRunPlan(wire.isz, m), TRUE)
    \/ \E m \in Msgs : \E plan \in FaultyPlans(wire.isz, m) : ClientConnect(plan, FALSE)
    \/ ClientWrite
    \/ ClientClose
    \/ ClientRecvLen
    \/ ClientRecvBody
    \/ SessRecvLen
    \/ SessRecvBody
    \/ SessSendLen
    \/ SessSendBody

SpecSess == InitSess /\ [][NextSess]_vars

\* Handle has returned
SessOver == wire.spc = "closed"
\* a read of Handle failed or returned fewer bytes than the frame has
ReadFailedOrShort ==
    \/ wire.rerr \in {"len", "body"}
    \/ wire.preN # -1 /\ wire.preN < 8
    \/ wire.bodyN # -1 /\ wire.bodyN < wire.msgLen

\* C22: when reading the length prefix or the body fails or is short, or the
\* body does not decode, the session answers with code 500 and the MsgErr
\* control code, dispatches nothing and closes the connection
C22_BadFrameAnswered500 ==
    (wire.spc \in {"sendLen", "sendBody", "closed"}
     /\ (ReadFailedOrShort \/ wire.rerr = "decode"))
        => wire.res = 500 /\ wire.ctl = "MsgErr" /\ wire.req = NoMsg

\* C23: the handler is dispatched only after the whole request frame (the
\* prefix and all announced body bytes) has been received; the connection is
\* closed only after the whole response frame has been written (unless
\* writing it failed); a session writes at most one response
C23_WholeFramesInOrder ==
    /\ wire.req # NoMsg => wire.preN >= 8 /\ wire.bodyN = wire.msgLen
    /\ (SessOver /\ ~wire.serr) => wire.spre # -1 /\ wire.sbody = Len(MarshalRes(wire.res))
    /\ wire.nresp <= 1

\* C24: the prefix of every frame, of ClientRun and of sendResponse, is
\* exactly 8 bytes and announces the number of body bytes that follow, and
\* the receiver takes exactly 8 bytes as the prefix
C24_PrefixIsEightBytes ==
    /\ wire.cpre # -1 => wire.cpre = 8
    /\ wire.spre # -1 => wire.spre = 8
    /\ wire.sask # -1 => wire.sask = 8
    /\ wire.cask # -1 => wire.cask = 8
    /\ (wire.real /\ wire.preN # -1) => wire.preN = 8

\* ---------------------------------------------------------------------
\* Dump and Load: the registry and the snapshot store

\* the keys of the store: the project name, and the full name of a process
ProjKey(app) == <<app>>
StoreKeys == {ProjKey(a) : a \in Apps} \cup FullNames

\* the working directory of every project of this part
DumpDir == "/w"
DumpOpts == {o \in Opts : o.WorkDir = DumpDir}

\* the Process instances of proj.procTable
ProcTableOf(r, app) == {f \in DOMAIN r.table : f[1] = app}

\* what the transaction of doDump for one project leaves in the store: nothing
\* when SetEntry of the metadata fails (the loop continues) or when Commit
\* fails, else the metadata and every process whose SetEntry succeeds
DumpWrites(r, app, wfail, cfail) ==
    IF ProjKey(app) \in wfail \/ app \in cfail THEN {}
    ELSE {ProjKey(app)} \cup (ProcTableOf(r, app) \ wfail)

\* the failures of SetEntry and Commit that a doDump of registry r meets
DumpFailures(r, wfail, cfail) ==
    (wfail \cap ({ProjKey(a) : a \in r.projects} \cup DOMAIN r.table) # {})
    \/ (cfail \cap r.projects # {})

StoreFrame ==
    UNCHANGED <<proc, pidfile, running, child, nspawn, svmu, pmu, th, nreq, down,
                lastStop, assigned, dm, wire, pfo, bat, tab, att>>

\* the response to the latest Dump or Load has been sent
StoreAnswered == store.op = "none"

\* no more than MaxStoreOps Dumps, Loads and restarts in one run
MaxStoreOps == 3
StoreRoom == store.n < MaxStoreOps

\* doDump: 500 when the store does not open; else one transaction per
\* project, the errors of SetEntry and Commit logged or dropped, and 200
DoDump(openOk, wfail, cfail) ==
    /\ StoreAnswered /\ Answered /\ StoreRoom
    /\ store' =
          IF ~openOk
          THEN [store EXCEPT !.op = "Dump", !.err = "open", !.code = 500, !.n = @ + 1]
          ELSE [store EXCEPT
                   !.db = @ \cup UNION {DumpWrites(reg, a, wfail, cfail) : a \in reg.projects},
                   !.op = "Dump",
                   !.err = IF DumpFailures(reg, wfail, cfail) THEN "write" ELSE "none",
                   !.code = 200, !.n = @ + 1,
                   !.snap = [projects |-> reg.projects, names |-> DOMAIN reg.table],
                   !.clean = (store.db = {}) /\ ~DumpFailures(reg, wfail, cfail)]
    /\ UNCHANGED <<reg, procList>>
    /\ StoreFrame

\* the options doLoad builds out of the store: one per project key whose
\* value reads and decodes, holding the processes stored under its name
\* whose values read and decode
StoredOpt(db, rfail, app) ==
    [AppName |-> app, WorkDir |-> DumpDir,
     Processes |-> {n \in ProcNames : FullName(app, n) \in db \ rfail}]
StoredApps(db, rfail) == {a \in Apps : ProjKey(a) \in db \ rfail}

\* the range over procOpts in the order oa
StoredOpts(db, rfail, oa) ==
    [i \in 1..Len(SelectSeq(oa, LAMBDA a : a \in StoredApps(db, rfail))) |->
        StoredOpt(db, rfail, SelectSeq(oa, LAMBDA a : a \in StoredApps(db, rfail))[i])]

AppOrders == {<<"a", "b">>, <<"b", "a">>}

\* doLoad: 500 when the store does not open; else the options read from the
\* store (read and decode errors logged, the error of View dropped),
\* UpdateApp(true) and UpdateApp(false) per project, and 200
DoLoad(openOk, rfail, oa, o1) ==
    /\ StoreAnswered /\ Answered /\ StoreRoom
    /\ reg.ninst + Cardinality(store.db \cap FullNames) <= MaxAdds
    /\ IF ~openOk
       THEN /\ store' = [store EXCEPT !.op = "Load", !.err = "open", !.code = 500,
                                      !.n = @ + 1]
            /\ UNCHANGED <<reg, procList>>
       ELSE LET u == LoadAll(StoredOpts(store.db, rfail, oa), o1,
                             [reg |-> reg, pl |-> procList])
            IN  /\ store' = [store EXCEPT
                                !.op = "Load",
                                !.err = IF rfail \cap store.db # {} THEN "read" ELSE "none",
                                !.code = 200, !.n = @ + 1]
                /\ reg' = u.reg
                /\ procList' = u.pl
    /\ StoreFrame

\* sendResponse of a Dump or a Load
StoreReturn ==
    /\ ~StoreAnswered
    /\ store' = [store EXCEPT !.op = "none", !.err = "none", !.code = 0]
    /\ UNCHANGED <<reg, procList>>
    /\ StoreFrame

\* the daemon ends and a new one starts: an empty registry, the store kept
FreshDaemon ==
    /\ StoreAnswered /\ Answered /\ StoreRoom
    /\ reg.projects # {}
    /\ reg' = NewRegistry
    /\ procList' = NewProcList
    /\ store' = [store EXCEPT !.n = @ + 1]
    /\ StoreFrame

\* a request answered in between that ends in UpdateApp(force, opt)
StoreUpdateApp(force, opt, o1) ==
    /\ StoreAnswered /\ Answered
    /\ Room(reg, opt)
    /\ LET u == UpdateApp(force, opt, o1, o1, reg, procList)
       IN  /\ reg' = u.reg
           /\ procList' = u.pl
    /\ UNCHANGED store
    /\ StoreFrame

\* at most one key fails in one request
AtMostOne(S) == {{}} \cup {{x} : x \in S}

NextDump ==
    \/ \E force \in BOOLEAN, opt \in DumpOpts, o1 \in Orders :
          StoreUpdateApp(force, opt, o1)
    \/ \E openOk \in BOOLEAN, wfail \in AtMostOne(StoreKeys), cfail \in AtMostOne(Apps) :
          DoDump(openOk, wfail, cfail)
    \/ \E openOk \in BOOLEAN, rfail \in AtMostOne(StoreKeys), oa \in AppOrders,
          o1 \in Orders : DoLoad(openOk, rfail, oa, o1)
    \/ StoreReturn
    \/ FreshDaemon

SpecDump == Init /\ [][NextDump]_vars

\* the registry holds nothing
FreshRegistry == reg.projects = {} /\ DOMAIN reg.table = {} /\ DOMAIN procList.place = {}

\* C25: a Dump into an empty store followed by a Load into a fresh registry
\* restores the registry as it was dumped, projects without processes
\* included: the same projects, the same processes, all Standby
C25_DumpLoadRestores ==
    [][(/\ StoreAnswered /\ store'.op = "Load" /\ store'.err = "none"
        /\ store.clean /\ FreshRegistry)
          => /\ reg'.projects = store.snap.projects
             /\ DOMAIN reg'.table = store.snap.names
             /\ DOMAIN procList'.place = store.snap.names
             /\ \A f \in DOMAIN reg'.table : reg'.table[f].State = "Standby"]_vars

\* C26: an error while opening, iterating, reading or writing the store makes
\* the Dump or the Load fail with code 500, never 200
C26_StoreErrorIs500 ==
    store.err # "none" => store.code = 500


\* ---------------------------------------------------------------------
\* The order of a batch over "*"

\* C27: a batch over "*" visits the processes, and lists their results, in
\* the order of their registration (the order of their indices in the
\* ProcList), so that two runs over one registry go in the same order
C27_StarInRegistrationOrder ==
    [][(reg.req.pc = "groups" /\ reg'.req.pc = "ops"
        /\ \E i \in 1..Len(reg.req.groups[reg'.req.cur]) :
               reg.req.groups[reg'.req.cur][i] = Star)
          => \A i, j \in 1..Len(reg'.req.todo) :
                i < j => ProcListIndex(procList', reg'.req.todo[i])
                            < ProcListIndex(procList', reg'.req.todo[j])]_vars

\* ---------------------------------------------------------------------
\* LoadProcfileOption: the options of the processes of a Procfile

\* runtime.NumCPU() of the machine
maxCpus == 2

\* paths are sequences of components; the empty path is the empty string
NoPath == <<>>
Cwd == <<"w">>
\* config.GetRuntimeDir(cwd): <cwd>/tmp
GetRuntimeDir(cwd) == Append(cwd, "tmp")

\* the commands of a Procfile line: its words, and whether it holds a quote
Cmds == {[words |-> <<"run", "x">>, quoted |-> FALSE],
         [words |-> <<"echo", "'x'">>, quoted |-> TRUE]}
\* the argument vector: sh -c <line> for a line with a quote, else its words
CmdArgs(cmd) == IF cmd.quoted THEN <<"sh", "-c", cmd.words>> ELSE cmd.words

\* an entry of the options file as viper decodes it: the zero value for a
\* field that is not given
OptEntries ==
    [Root : {NoPath, <<"r">>}, NumProcs : {0, maxCpus + 1},
     PidRoot : {NoPath, <<"p">>}, LogRoot : {NoPath}, StopSignal : {"", "INT"}]
ZeroEntry ==
    [Root |-> NoPath, NumProcs |-> 0, PidRoot |-> NoPath, LogRoot |-> NoPath,
     StopSignal |-> ""]

\* Procfiles over ProcNames, options files over one declared name and one
\* name that no Procfile declares
Procfiles == UNION {[S -> Cmds] : S \in SUBSET ProcNames}
OptionFiles == UNION {[S -> OptEntries] : S \in SUBSET {"web", "old"}}

\* the defaults of the loop over the Procfile, and the command
WithDefaults(opt, cwd, cmd) ==
    [Root |-> IF opt.Root = NoPath THEN cwd ELSE opt.Root,
     NumProcs |-> IF opt.NumProcs <= 0 THEN 1
                  ELSE IF opt.NumProcs > maxCpus THEN maxCpus ELSE opt.NumProcs,
     PidRoot |-> IF opt.PidRoot = NoPath THEN GetRuntimeDir(cwd) ELSE opt.PidRoot,
     LogRoot |-> IF opt.LogRoot = NoPath THEN GetRuntimeDir(cwd) ELSE opt.LogRoot,
     StopSignal |-> IF opt.StopSignal = "" THEN "TERM" ELSE opt.StopSignal,
     cmd |-> CmdArgs(cmd)]

\* the entries of the options file that the Procfile declares
DeclaredEntries(procfile, options) ==
    [n \in DOMAIN options \cap DOMAIN procfile |-> options[n]]

\* LoadProcfileOption(cwd, procfile) with the options file given: entries of
\* names that the Procfile lacks are deleted; the loop over the Procfile
\* fills the entry of each name that has one (through its pointer), and
\* fills a new ProcessOption, which it does not put into the map, for each
\* name that has none
LoadProcfileOption(cwd, procfile, options) ==
    [WorkDir |-> cwd,
     Processes |-> [n \in DOMAIN DeclaredEntries(procfile, options) |->
                       WithDefaults(options[n], cwd, procfile[n])]]

LoadFrame ==
    UNCHANGED <<proc, pidfile, running, child, nspawn, svmu, pmu, th, nreq, down,
                lastStop, procList, assigned, reg, dm, wire, store, bat, tab, att>>

\* a call of LoadProcfileOption in the working directory Cwd
LoadCall(procfile, options) ==
    /\ ~pfo.called
    /\ pfo' = [called |-> TRUE, cwd |-> Cwd, procfile |-> procfile,
               options |-> options,
               result |-> LoadProcfileOption(Cwd, procfile, options)]
    /\ LoadFrame

\* the caller has taken the result
LoadReturn ==
    /\ pfo.called
    /\ pfo' = NewPfo
    /\ LoadFrame

NextLoad ==
    \/ \E procfile \in Procfiles, options \in OptionFiles : LoadCall(procfile, options)
    \/ LoadReturn

SpecLoad == Init /\ [][NextLoad]_vars

\* what the options file gives for name n: its entry, or nothing
GivenEntry(options, n) == IF n \in DOMAIN options THEN options[n] ELSE ZeroEntry

\* C28: the option set LoadProcfileOption returns holds every process the
\* Procfile declares, also those without an entry in the options file, and
\* no other; each with its command and with the defaults applied: root the
\* working directory, num_procs within 1..numCPUs, pid_root and log_root
\* <workdir>/tmp, stop_signal TERM
C28_EveryDeclaredProcessWithDefaults ==
    pfo.called =>
       LET r == pfo.result.Processes
       IN  /\ DOMAIN r = DOMAIN pfo.procfile
           /\ \A n \in DOMAIN r :
                 LET g == GivenEntry(pfo.options, n)
                 IN  /\ r[n].Root = (IF g.Root = NoPath THEN pfo.cwd ELSE g.Root)
                     /\ r[n].NumProcs \in 1..maxCpus
                     /\ g.NumProcs \in 1..maxCpus => r[n].NumProcs = g.NumProcs
                     /\ r[n].PidRoot = (IF g.PidRoot = NoPath
                                        THEN Append(pfo.cwd, "tmp") ELSE g.PidRoot)
                     /\ r[n].LogRoot = (IF g.LogRoot = NoPath
                                        THEN Append(pfo.cwd, "tmp") ELSE g.LogRoot)
                     /\ r[n].StopSignal = (IF g.StopSignal = "" THEN "TERM"
                                           ELSE g.StopSignal)
                     /\ r[n].cmd = CmdArgs(pfo.procfile[n])


\* ---------------------------------------------------------------------
\* The monitor of an earlier child, and the order of Stop

\* a child of the same Process launched after child c
LaterChild(c) ==
    \E d \in ChildIds : d > c /\ child[d].owner = child[c].owner /\ child[d].leader # "unborn"

\* C29: once a Stop followed by a Start has launched a new child, the monitor
\* of the previous child (the one Stop cancelled), when it comes to run, does
\* not set State to Stopped, does not set StopAt and does not remove the PID
\* file of the new child
C29_LateMonitorLeavesNewRun ==
    [][\A c \in ChildIds :
          (/\ child[c].leader = "reaped" /\ child'[c].leader = "done"
           /\ child[c].cancelled /\ LaterChild(c))
            => /\ proc'[child[c].owner].State = proc[child[c].owner].State
               /\ proc'[child[c].owner].StopAt = proc[child[c].owner].StopAt
               /\ pidfile'[child[c].owner] = pidfile[child[c].owner]]_vars


\* a step of thread t that leaves position pc
Leaves(t, pc) == th[t].pc = pc /\ th'[t].pc # pc

\* C30: Stop on a Running process goes in this order: the context is
\* cancelled; both reader tasks are waited for, then State is Stopping; the
\* stop signal goes to the whole group; SIGKILL goes to the group if and only
\* if delivering the stop signal failed with an error other than that of a
\* process already gone; State ends Stopped
C30_StopSequence ==
    [][\A t \in Threads :
          LET p == th[t].p IN
          /\ (Leaves(t, "pst_lock") /\ proc[p].State = "Running")
                => /\ th'[t].pc = "pst_wait"
                   /\ proc[p].ctx # "nil" => proc'[p].ctx = "canceled"
          /\ Leaves(t, "pst_wait")
                => /\ proc[p].ctx = "nil" \/ wgDone(p)
                   /\ proc'[p].State = "Stopping"
                   /\ th'[t].pc = "pst_signal"
          /\ Leaves(t, "pst_signal")
                => /\ proc[p].State = "Stopping"
                   /\ th'[t].sig = proc[p].Pid
                   /\ th'[t].kill <=> th'[t].kerr \notin {"none", "ESRCH"}
                   /\ proc'[p].State = "Stopped"]_vars

\* ------------------------------------------------------------------------
\* The end of the accept loop

\* C31: once a session has returned the Shutdown control code, the session
\* gets rid of its token and Listen returns (or the daemon process has
\* exited), with no further client connecting.
C31_ShutdownEndsListen ==
    \A c \in Conns :
       /\ (dm.sess[c] = "sending") ~> (dm.sess[c] = "done" \/ Exited)
       /\ (dm.sess[c] = "sending") ~> (dm.listen = "stopped" \/ Exited)

\* C32: Listen has returned only when every session it started has finished,
\* and nobody sends on the finish channel once Listen has closed it: neither
\* a session that returned Shutdown nor Daemon after a termination signal
\* (a send on the closed channel is the panic of the sender).
C32_NoSendAfterClose ==
    /\ dm.listen = "stopped" => \A c \in Conns : dm.sess[c] \in {"none", "done"}
    /\ dm.closed => /\ \A c \in Conns : dm.sess[c] # "sending"
                    /\ dm.pc # "panic"

\* ------------------------------------------------------------------------
\* Sessions running together: one session executes a "*" batch, visiting the
\* processes one by one through forEachProcess, while other sessions have
\* their UpdateApp calls served and children exit.  Every step is one
\* critical section of the supervisor lock, or one read made without it.

BatFrame ==
    UNCHANGED <<proc, pidfile, running, child, nspawn, svmu, pmu, th, nreq, down,
                lastStop, assigned, dm, wire, store, pfo, tab, att>>

\* a Process object is reached through the process table or, once it has
\* been deleted from the table, through the pointers that are left
InTable(r, i) == \E f \in DOMAIN r.table : r.table[f].inst = i
NameOf(r, i) == CHOOSE f \in DOMAIN r.table : r.table[f].inst = i
Deref(st, i) ==
    IF InTable(st.reg, i) THEN st.reg.table[NameOf(st.reg, i)] ELSE st.heap[i]
PutObj(st, i, pr) ==
    IF InTable(st.reg, i) THEN [st EXCEPT !.reg.table[NameOf(st.reg, i)] = pr]
    ELSE [st EXCEPT !.heap = MapPut(@, i, pr)]

\* the objects a change of the table has deleted, kept while the batch
\* holds them or while their child lives
Detach(r, r2, h, p) ==
    LET gone == {f \in DOMAIN r.table :
                    /\ ~InTable(r2, r.table[f].inst)
                    /\ r.table[f].inst = p \/ r.table[f].State = "Running"}
    IN  [i \in DOMAIN h \cup {r.table[f].inst : f \in gone} |->
            IF i \in DOMAIN h THEN h[i]
            ELSE r.table[CHOOSE f \in gone : r.table[f].inst = i]]
\* the objects nothing refers to any more are forgotten
Collect(h, p) == [i \in {j \in DOMAIN h : j = p \/ h[j].State = "Running"} |-> h[i]]

\* Supervisor.Start(p): a running process gets its flag set; else
\* Process.Start() runs (ok: its result) and the flag becomes its result.
\* The project is found by the application part of p.FullName.
SupervisorStart(st, i, ok) ==
    LET pr == Deref(st, i)
    IN  IF RegIsRunning(pr)
        THEN [st EXCEPT !.reg = SetState(@, pr.FullName[1], pr.FullName[2], TRUE)]
        ELSE [PutObj(st, i, [pr EXCEPT !.State = IF ok THEN "Running" ELSE "Failed",
                                       !.Pid = IF ok THEN pr.inst ELSE 0])
                 EXCEPT !.reg = SetState(@, pr.FullName[1], pr.FullName[2], ok)]

\* Supervisor.Stop(p): a running, flagged process is stopped by
\* Process.Stop() (ok: its result) and its flag cleared; a stopped one gets
\* its flag cleared; nothing else changes
SupervisorStop(st, i, ok) ==
    LET pr == Deref(st, i)
    IN  IF pr.State = "Running" /\ GetState(st.reg, pr.FullName[1], pr.FullName[2]) /\ ok
        THEN [PutObj(st, i, [pr EXCEPT !.State = "Stopped", !.Pid = 0])
                 EXCEPT !.reg = SetState(@, pr.FullName[1], pr.FullName[2], FALSE)]
        ELSE IF pr.State = "Stopped"
             THEN [st EXCEPT !.reg = SetState(@, pr.FullName[1], pr.FullName[2], FALSE)]
             ELSE st

\* the operation StopAll("*") hands to forEachProcess
StopUnlessStopped(st, i, ok) ==
    IF Deref(st, i).State # "Stopped" THEN SupervisorStop(st, i, ok) ELSE st

\* Supervisor.Status(p): the pointer is returned
SupervisorStatus(st, i) == st

MonitorExit_ClearsFlag(st, i) ==
    [PutObj(st, i, [Deref(st, i) EXCEPT !.State = "Stopped"])
        EXCEPT !.reg = SetState(@, Deref(st, i).FullName[1], Deref(st, i).FullName[2], FALSE)]

\* monitorProcess once the child of the object has exited
MonitorExit(st, i) == PutObj(st, i, [Deref(st, i) EXCEPT !.State = "Stopped"])

\* the actions of a batch, and the *All calls each one makes
BatActions == {"start", "stop", "restart", "status"}
FirstPass(action) == IF action = "restart" THEN "stop" ELSE action

\* UpdateApp(force, opt) of another session (reload, run, load, or the head
\* of its BatchDo)
BatUpdateApp(force, opt, o1) ==
    /\ bat.pc # "panic"
    /\ Room(reg, opt)
    /\ LET u == UpdateApp(force, opt, o1, o1, reg, procList)
       IN  /\ reg' = u.reg
           /\ procList' = u.pl
           /\ bat' = [bat EXCEPT !.heap = Detach(reg, u.reg, @, bat.p), !.last = NoLast]
    /\ BatFrame

\* BatchDo(action, opt, {"*"}): UpdateApp(true, opt), nil ends the batch;
\* else doMany("*") begins and forEachProcess takes the names of
\* procList.All()
BatBegin(action, opt, o1, ord) ==
    /\ bat.pc = "idle"
    /\ Room(reg, opt)
    /\ LET u == UpdateApp(TRUE, opt, o1, o1, reg, procList)
       IN  /\ reg' = u.reg
           /\ procList' = u.pl
           /\ bat' = IF u.proj = "" THEN [bat EXCEPT !.last = NoLast]
                     ELSE [bat EXCEPT !.pc = "lookup", !.action = action,
                                      !.pass = FirstPass(action),
                                      !.todo = SeqOf(ProcListAll(u.pl), ord),
                                      !.p = 0, !.last = NoLast]
    /\ BatFrame

\* proc := sv.GetProcByName(name), made without the supervisor lock
BatLookup ==
    /\ bat.pc = "lookup" /\ bat.todo # <<>>
    /\ bat' = [bat EXCEPT !.pc = "call", !.p = GetProcByName(reg, Head(bat.todo)).inst,
                          !.heap = Collect(@, 0), !.last = NoLast]
    /\ UNCHANGED <<reg, procList>>
    /\ BatFrame

\* operation(proc): Start, Stop or Status of the Process looked up, under the
\* supervisor lock; a nil Process is dereferenced by Start and by the test of
\* StopAll, which is the panic of the daemon
BatCall(ok) ==
    /\ bat.pc = "call"
    /\ LET st == [reg |-> reg, heap |-> bat.heap]
           after == IF bat.pass = "start" THEN SupervisorStart(st, bat.p, ok)
                    ELSE IF bat.pass = "stop" THEN StopUnlessStopped(st, bat.p, ok)
                    ELSE SupervisorStatus(st, bat.p)
       IN  IF bat.p = -1
           THEN /\ bat' = [bat EXCEPT !.pc = IF bat.pass = "status" THEN "lookup" ELSE "panic",
                                      !.todo = Tail(@), !.p = 0, !.last = NoLast]
                /\ UNCHANGED reg
           ELSE /\ reg' = after.reg
                /\ bat' = [bat EXCEPT !.pc = "lookup", !.todo = Tail(@),
                                      !.heap = after.heap,
                                      !.last = [pass |-> bat.pass, p |-> bat.p,
                                                listed |-> InTable(reg, bat.p)]]
    /\ UNCHANGED procList
    /\ BatFrame

\* RestartAll: StartAll("*") follows StopAll("*"), with the names
\* procList.All() returns then
BatSecondPass(ord) ==
    /\ bat.pc = "lookup" /\ bat.todo = <<>>
    /\ bat.action = "restart" /\ bat.pass = "stop"
    /\ bat' = [bat EXCEPT !.pass = "start", !.todo = SeqOf(ProcListAll(procList), ord),
                          !.p = 0, !.heap = Collect(@, 0), !.last = NoLast]
    /\ UNCHANGED <<reg, procList>>
    /\ BatFrame

\* the batch is over, the response is sent
BatReturn ==
    /\ bat.pc = "lookup" /\ bat.todo = <<>>
    /\ bat.action = "restart" => bat.pass = "start"
    /\ bat' = [NewBat EXCEPT !.heap = Collect(bat.heap, 0)]
    /\ UNCHANGED <<reg, procList>>
    /\ BatFrame

\* the child of a running process exits and its monitor runs
BatMonitor(i) ==
    /\ bat.pc # "panic"
    /\ InTable(reg, i) \/ i \in DOMAIN bat.heap
    /\ LET st == [reg |-> reg, heap |-> bat.heap]
       IN  /\ Deref(st, i).State = "Running"
           /\ reg' = MonitorExit(st, i).reg
           /\ bat' = [bat EXCEPT !.heap = Collect(MonitorExit(st, i).heap, bat.p),
                                 !.last = NoLast]
    /\ UNCHANGED procList
    /\ BatFrame

\* the options the sessions bring: the Procfile of one working directory in
\* its successive versions
BatOpts == {o \in Opts : o.AppName = "a" /\ o.WorkDir = "/w"}

NextBat ==
    \/ \E force \in BOOLEAN, opt \in BatOpts, o1 \in Orders : BatUpdateApp(force, opt, o1)
    \/ \E action \in BatActions, opt \in BatOpts, o1 \in Orders, ord \in FullOrders :
          BatBegin(action, opt, o1, ord)
    \/ BatLookup
    \/ \E ok \in BOOLEAN : BatCall(ok)
    \/ \E ord \in FullOrders : BatSecondPass(ord)
    \/ BatReturn
    \/ \E i \in 1..MaxAdds : BatMonitor(i)

SpecBat == Init /\ [][NextBat]_vars

\* the state of the Process objects, before and after a step
BatNow == [reg |-> reg, heap |-> bat.heap]
BatNext == [reg |-> reg', heap |-> bat'.heap]
\* the batch makes its call on the Process named f in this step
CallsOn(f, pass) ==
    /\ bat.pc = "call" /\ bat.pass = pass /\ bat.p > 0
    /\ Deref(BatNow, bat.p).FullName = f
    /\ bat'.pc = "lookup" /\ bat'.todo = Tail(bat.todo)

\* C33: the intended-running flag of a name (what GetState answers) changes
\* only in a Supervisor.Start of that process, to the result of the start, in
\* a Supervisor.Stop of it, to false, and at its registration, to false.  No
\* other step changes a flag: not the exit of a child and its monitor, not a
\* Status, not an UpdateApp on a name that is registered already.
C33_FlagChangesOnlyByStartStop ==
    [][\A f \in FullNames :
          GetState(reg', f[1], f[2]) # GetState(reg, f[1], f[2])
          => \/ /\ CallsOn(f, "start")
                /\ GetState(reg', f[1], f[2]) = RegIsRunning(Deref(BatNext, bat.p))
             \/ /\ CallsOn(f, "stop")
                /\ ~GetState(reg', f[1], f[2])
             \/ /\ f \notin DOMAIN reg.table /\ f \in DOMAIN reg'.table
                /\ ~GetState(reg', f[1], f[2])]_vars

\* a process whose child has exited is still flagged, while a status batch
\* is visiting it and an UpdateApp has just been served
C33_Witness ==
    /\ bat.pc = "lookup" /\ bat.action = "status" /\ bat.last.pass = "status"
    /\ \E f \in DOMAIN reg.table :
          /\ reg.table[f].State = "Stopped" /\ GetState(reg, f[1], f[2])
          /\ reg.table[f].inst = bat.last.p

\* the registry is whole: the flags, the process table and the global list
\* hold the same full names
Whole(r, pl) ==
    /\ DOMAIN r.flags = DOMAIN r.table
    /\ ProcListAll(pl) = DOMAIN r.table

\* C34: after every completed operation (an UpdateApp of either mode, a
\* Start, Stop or Status call of a batch, the end of a batch) the flags of
\* every project have the names of its process table, and the global
\* ProcList holds exactly the full names of those processes.
C34_RegistryNeverTears == bat.pc # "panic" => Whole(reg, procList)

\* ------------------------------------------------------------------------
\* Supervisor.Restart against the other sessions

\* the Stop of the Restart of caller t has returned and its Start has not
\* taken the supervisor lock yet
BetweenStopAndStart(t) == th[t].op = "svRestart" /\ th[t].pc = "sv_start"

\* caller u enters Supervisor.Start or Supervisor.Stop in this step: it takes
\* the supervisor lock and acts on its process
TakesEffect(u) == th[u].pc \in {"sv_start", "sv_stop"} /\ th'[u] # th[u]

\* C35: between the Stop and the Start that make up one Supervisor.Restart
\* of a process, no Start or Stop of another session on that process takes
\* effect.
C35_RestartIsAtomic ==
    [][\A t \in Threads, u \in Threads :
          (u # t /\ BetweenStopAndStart(t) /\ th[u].p = th[t].p)
          => ~TakesEffect(u)]_vars

\* ------------------------------------------------------------------------
\* The locked tables: ProjectTable and ProcTable under two sessions

TabFrame ==
    UNCHANGED <<proc, pidfile, running, child, nspawn, svmu, pmu, th, nreq, down,
                lastStop, procList, assigned, reg, dm, wire, store, pfo, bat, att>>

\* the operations of each table
TableOps(T) ==
    IF T = "ProjectTable" THEN {"Get", "Set", "Iter"}
    ELSE {"Get", "Set", "Add", "Del", "Values"}

\* the lock an operation takes: the read lock ("R"), the write lock ("W") or
\* none.  ProcTable.Set writes under the read lock; ProjectTable.Iter and
\* ProcTable.Values hand out the table itself, to be ranged over afterwards.
LockTaken(T, op) ==
    CASE op = "Get" -> "R"
      [] op = "Set" -> IF T = "ProcTable" THEN "R" ELSE "W"
      [] op \in {"Add", "Del", "Iter"} -> "W"
      [] OTHER -> "none"

\* sync.RWMutex: RLock waits for the writer, Lock for everybody
CanLock(T, kind) ==
    CASE kind = "R" -> tab.writer[T] = ""
      [] kind = "W" -> tab.writer[T] = "" /\ tab.readers[T] = {}
      [] OTHER -> TRUE

Fatal == \E s \in Sessions : tab.pc[s] = "fatal"

\* Get, Set, Add or Del is entered: the lock is taken
TabEnter(s, T, op, k) ==
    /\ ~Fatal /\ tab.pc[s] = "idle"
    /\ op \in TableOps(T) \cap {"Get", "Set", "Add", "Del"}
    /\ CanLock(T, LockTaken(T, op))
    /\ tab' = [tab EXCEPT !.pc[s] = IF op = "Get" THEN "reading" ELSE "writing",
                          !.t[s] = T, !.op[s] = op, !.k[s] = k,
                          !.readers[T] = IF LockTaken(T, op) = "R" THEN @ \cup {s} ELSE @,
                          !.writer[T] = IF LockTaken(T, op) = "W" THEN s ELSE @]
    /\ TabFrame

\* the operation is carried out and its deferred unlock runs
TabLeave(s) ==
    /\ ~Fatal /\ tab.pc[s] \in {"reading", "writing"}
    /\ LET T == tab.t[s] IN
       tab' = [tab EXCEPT !.pc[s] = "idle", !.t[s] = "", !.op[s] = "", !.k[s] = "",
                          !.keys[T] = CASE tab.op[s] \in {"Set", "Add"} -> @ \cup {tab.k[s]}
                                        [] tab.op[s] = "Del" -> @ \ {tab.k[s]}
                                        [] OTHER -> @,
                          !.readers[T] = @ \ {s},
                          !.writer[T] = IF @ = s THEN "" ELSE @,
                          !.dirty = [u \in Sessions |->
                                        IF /\ tab.op[s] # "Get" /\ u # s
                                           /\ tab.pc[u] = "ranging" /\ tab.t[u] = T
                                        THEN TRUE ELSE @[u]]]
    /\ TabFrame

\* Iter or Values returns the table (Iter locks and unlocks around the
\* return) and the caller begins to range over it
TabIter(s, T, op) ==
    /\ ~Fatal /\ tab.pc[s] = "idle"
    /\ op \in TableOps(T) \cap {"Iter", "Values"}
    /\ CanLock(T, LockTaken(T, op))
    /\ tab' = [tab EXCEPT !.pc[s] = "ranging", !.t[s] = T, !.op[s] = op,
                          !.seen[s] = {}, !.dirty[s] = FALSE]
    /\ TabFrame

\* one turn of the range over the table, which takes no lock: the next key,
\* or the end.  Once the table was written during the range, the range may
\* miss keys, and the runtime may end the program ("concurrent map iteration
\* and map write").
TabRange(s) ==
    /\ ~Fatal /\ tab.pc[s] = "ranging"
    /\ LET T == tab.t[s]
           over == [tab EXCEPT !.pc[s] = "idle", !.t[s] = "", !.op[s] = "",
                               !.seen[s] = {}, !.dirty[s] = FALSE]
       IN  \/ \E k \in tab.keys[T] \ tab.seen[s] :
                 tab' = [tab EXCEPT !.seen[s] = @ \cup {k}]
           \/ /\ tab.keys[T] \subseteq tab.seen[s] \/ tab.dirty[s]
              /\ tab' = over
           \/ /\ tab.dirty[s]
              /\ tab' = [tab EXCEPT !.pc[s] = "fatal"]
    /\ TabFrame

NextTab ==
    \/ \E s \in Sessions, T \in LockedTables, op \in {"Get", "Set", "Add", "Del"},
          k \in TabKeys : TabEnter(s, T, op, k)
    \/ \E s \in Sessions : TabLeave(s)
    \/ \E s \in Sessions, T \in LockedTables, op \in {"Iter", "Values"} : TabIter(s, T, op)
    \/ \E s \in Sessions : TabRange(s)

SpecTab == Init /\ [][NextTab]_vars

\* session s is changing table T
Mutating(s, T) == tab.pc[s] = "writing" /\ tab.t[s] = T
\* session s is reading table T or is in the middle of a range over it
Observing(s, T) == tab.pc[s] \in {"reading", "ranging"} /\ tab.t[s] = T

\* C36: while a session is changing a table, no other session is changing,
\* reading or ranging over the same table.
C36_MutationExcludesAll ==
    \A T \in LockedTables : \A s \in Sessions, u \in Sessions :
       (u # s /\ Mutating(s, T)) => ~Mutating(u, T) /\ ~Observing(u, T)

\* C37: a process that an UpdateApp has removed from the registry is not
\* started afterwards by a batch that had looked it up before: every Process
\* with a live child and every name flagged running is in the process table
\* of its project and in ProcList.
C37_NoRemovedProcessRuns ==
    /\ \A i \in DOMAIN bat.heap : ~RegIsRunning(bat.heap[i])
    /\ \A f \in DOMAIN reg.table :
          RegIsRunning(reg.table[f]) => f \in ProcListAll(procList)
    /\ \A f \in DOMAIN reg.flags :
          reg.flags[f] => f \in DOMAIN reg.table /\ f \in ProcListAll(procList)

\* ------------------------------------------------------------------------
\* The files, pipes and readers of Process.Start

AttFrame ==
    UNCHANGED <<proc, pidfile, running, child, nspawn, svmu, pmu, th, nreq, down,
                lastStop, procList, assigned, reg, dm, wire, store, pfo, bat, tab>>

\* the files and pipes a call leaves open and unread when the next call
\* overwrites p.stdout and p.stderr or builds a new command
LeftOpen(a) ==
    Cardinality({s \in Streams : a.log[s] = "open" /\ s \notin a.readers})
    + Cardinality({s \in Streams : a.pipe[s] = "open" /\ s \notin a.readers})

\* Start returns false
ReturnsFalse(a, why) == [a EXCEPT !.pc = "out", !.ret = "FALSE", !.cause = why]

\* Process.Start is called and validateStart decides: a call made while the
\* child of the previous one lives returns true, a call on an invalid state
\* returns false, every other call goes on with fresh files and pipes
AttValidate(valid) ==
    /\ att.pc = "out" /\ att.n < MaxStarts /\ att.readers = {}
    /\ att' = IF att.child = "alive"
              THEN [att EXCEPT !.n = @ + 1, !.ret = "TRUE", !.cause = ""]
              ELSE LET a == [NewAtt EXCEPT !.n = att.n + 1,
                                           !.lost = att.lost + LeftOpen(att)]
                   IN  IF valid THEN [a EXCEPT !.pc = "prepare"]
                       ELSE ReturnsFalse(a, "state")
    /\ AttFrame

\* prepareEnvironment: chdir, then the two log files; the first one is closed
\* when the second cannot be opened
AttPrepare(chdir, outLog, errLog) ==
    /\ att.pc = "prepare"
    /\ att' = IF ~chdir THEN ReturnsFalse(att, "chdir")
              ELSE IF ~outLog THEN ReturnsFalse(att, "log")
              ELSE IF ~errLog
                   THEN ReturnsFalse([att EXCEPT !.log["STDOUT"] = "closed"], "log")
              ELSE [att EXCEPT !.log = [s \in Streams |-> "open"], !.pc = "build"]
    /\ AttFrame

\* buildCommand: an empty command is an error
AttBuild(empty) ==
    /\ att.pc = "build"
    /\ att' = IF empty THEN ReturnsFalse(att, "empty")
              ELSE [att EXCEPT !.pc = "streams"]
    /\ AttFrame

\* setupStreams: the two pipes, then the two readers
AttStreams(stdoutPipe, stderrPipe) ==
    /\ att.pc = "streams"
    /\ att' = IF ~stdoutPipe THEN ReturnsFalse(att, "pipe")
              ELSE IF ~stderrPipe
                   THEN ReturnsFalse([att EXCEPT !.pipe["STDOUT"] = "open"], "pipe")
              ELSE [att EXCEPT !.pipe = [s \in Streams |-> "open"],
                               !.readers = Streams, !.started = Streams,
                               !.pc = "launch"]
    /\ AttFrame

\* launchProcess: cmd.Start; a command that could not be started closes the
\* parent's ends of its pipes
AttLaunch(ok) ==
    /\ att.pc = "launch"
    /\ att' = IF ok THEN [att EXCEPT !.pc = "out", !.ret = "TRUE", !.child = "alive"]
              ELSE ReturnsFalse([att EXCEPT !.pipe = [s \in Streams |-> "closed"]],
                                "spawn")
    /\ AttFrame

\* the child exits: its ends of the pipes close
AttChildExits ==
    /\ att.child = "alive"
    /\ att' = [att EXCEPT !.child = "exited"]
    /\ AttFrame

\* watchLog on stream s ends when its pipe delivers the end of the stream or
\* an error: the deferred call closes the log file (cmd.Wait, which waits for
\* the child only, closes the pipe)
AttWatchLog(s) ==
    /\ s \in att.readers
    /\ att.pipe[s] = "closed" \/ att.child = "exited"
    /\ att' = [att EXCEPT !.readers = @ \ {s}, !.pipe[s] = "closed",
                          !.log[s] = "closed"]
    /\ AttFrame

NextStart ==
    \/ \E valid \in BOOLEAN : AttValidate(valid)
    \/ \E chdir, outLog, errLog \in BOOLEAN : AttPrepare(chdir, outLog, errLog)
    \/ \E empty \in BOOLEAN : AttBuild(empty)
    \/ \E stdoutPipe, stderrPipe \in BOOLEAN : AttStreams(stdoutPipe, stderrPipe)
    \/ \E ok \in BOOLEAN : AttLaunch(ok)
    \/ AttChildExits
    \/ \E s \in Streams : AttWatchLog(s)

SpecStart == Init /\ [][NextStart]_vars

\* C38: whenever Start has returned false, every log file and pipe the call
\* opened is closed and none of its readers runs; and a reader that has ended
\* has closed its log file.
C38_FailedStartLeaksNothing ==
    /\ att.ret = "FALSE" =>
          /\ \A s \in Streams : att.log[s] # "open" /\ att.pipe[s] # "open"
          /\ att.readers = {}
    /\ \A s \in att.started \ att.readers : att.log[s] = "closed"

\* ------------------------------------------------------------------------
\* Standby

\* a child was spawned for process p
Launched(p) == \E c \in ChildIds : child[c].owner = p

RunHandled == reg.ret.op # "Run" /\ reg'.ret.op = "Run"

\* C40: a Run registers its process under the application of its working
\* directory and starts it, and removes nothing: every other process that
\* was registered under that application before the Run, flagged running or
\* not, is registered afterwards, with the State it had.
C40_RunRemovesNothing ==
    [][RunHandled =>
          LET app == reg'.ret.opt.AppName
              own == Declared(reg'.ret.opt)
          IN  /\ own \subseteq DOMAIN reg'.table
              /\ \A f \in RegisteredOf(reg, app) \ own :
                    /\ f \in DOMAIN reg'.table
                    /\ reg'.table[f].State = reg.table[f].State]_vars

====
